---- MODULE Spec2Model ----
(***************************************************************************)
(* The template configuration engine of kern (src/lib/utils/features.ts)   *)
(* as init drives it (lib/commands/init.js): the cloned template's         *)
(* template.config.json is loaded, the template is copied into the target  *)
(* directory, and applyTemplateConfig makes, for every unselected item of  *)
(* every layer, removeFiles for its files[] and directories[] entries,     *)
(* updateManifest for its manifestKeys and processCodePattern for its      *)
(* codePatterns, and then updateDependencies once.                         *)
(*                                                                         *)
(* Strings that the code inspects character by character (the removal      *)
(* patterns, the content of manifest.config.ts and of the source files,    *)
(* the manifest keys and the code patterns) are sequences of one-character *)
(* strings, so that endsWith, String.prototype.replace, path.join and the  *)
(* regular expressions are computed as the code computes them.  A file     *)
(* name that no pattern operation looks into ("package.json") is a single  *)
(* token of such a sequence.                                               *)
(***************************************************************************)
EXTENDS Naturals, Sequences, FiniteSets, TLC

VARIABLES
    templateConfig,   \* the document in template.config.json (never mutated)
    userSelections,   \* the selections handed to applyTemplateConfig (never mutated)
    locked,           \* paths whose unlink/rmdir fails (EPERM), a fact of the disk
    configFile,       \* "valid" | "absent" | "invalid": tempDir/template.config.json
    tempDir,          \* the temporary directory holding the cloned template: its
                      \* tree and the content of its files
    tree,             \* the project directory: path -> kind of the entry there
    pkg,              \* the content of <projectDir>/package.json
    manifestTs,       \* the content of <projectDir>/manifest.config.ts
    manifestJson,     \* the content of <projectDir>/manifest.json
    code,             \* the content of the source files of the project directory
    predefinedChoices,\* whether init was handed the selections (as its tests do)
    prompted,         \* the layers promptOptions asked the user about, in order
    pc,               \* position of init: "cloned" | "loaded" | "prompted" | "idle"
                      \* (copied) | "running" | "done" (applyTemplateConfig) |
                      \* "finished" (init returned) | "exited" (process.exit(1)
                      \* was called)
    calls,            \* the calls of the pass under way, in order
    callIdx,          \* index of the next call of the running pass
    runs,             \* number of applyTemplateConfig passes started
    last,             \* what the latest call did (the console output it produced)
    log,              \* what the calls of the current pass did, in order
    treeStart,        \* tree when the current pass started
    treeBefore,       \* tree before the latest call
    pkgBefore,        \* pkg before the latest call
    manifestBefore,   \* manifestTs before the latest call
    codeBefore,       \* code before the latest call
    ended             \* the tree before the first pass and at the end of every pass

vars == <<templateConfig, userSelections, locked, configFile, tempDir, tree, pkg,
          manifestTs, manifestJson, code, predefinedChoices, prompted, pc, calls, callIdx,
          runs, last, log, treeStart, treeBefore, pkgBefore, manifestBefore, codeBefore,
          ended>>

\* Number of times applyTemplateConfig is run on the same target directory.
MaxRuns == 2

(***************************************************************************)
(* String operations of the removal patterns                               *)
(***************************************************************************)

\* '/**/*' and '/**/', the two suffixes removeFiles looks for
SuffixAll == <<"/", "*", "*", "/", "*">>
SuffixDir == <<"/", "*", "*", "/">>

\* String.prototype.endsWith
EndsWith(s, suf) ==
    /\ Len(s) >= Len(suf)
    /\ SubSeq(s, Len(s) - Len(suf) + 1, Len(s)) = suf

\* String.prototype.indexOf, 1-based; 0 when sub does not occur in s
IndexOf(s, sub) ==
    LET hits == { i \in 1..(Len(s) + 1) :
                    /\ i + Len(sub) - 1 <= Len(s)
                    /\ SubSeq(s, i, i + Len(sub) - 1) = sub }
    IN  IF hits = {} THEN 0
        ELSE CHOOSE i \in hits : \A j \in hits : i <= j

\* s.replace(sub, ''): a string pattern replaces its FIRST occurrence only
ReplaceFirst(s, sub) ==
    LET i == IndexOf(s, sub)
    IN  IF i = 0 THEN s
        ELSE SubSeq(s, 1, i - 1) \o SubSeq(s, i + Len(sub), Len(s))

\* itemPattern.endsWith('/**/') || itemPattern.endsWith('/**/*')
IsDirectoryPattern(itemPattern) ==
    EndsWith(itemPattern, SuffixDir) \/ EndsWith(itemPattern, SuffixAll)

\* itemPattern.replace('/**/*', '').replace('/**/', '')
NormalizedPattern(itemPattern) ==
    ReplaceFirst(ReplaceFirst(itemPattern, SuffixAll), SuffixDir)

\* The segments of a relative path: split on '/', empty segments dropped
\* (path.join normalises repeated and leading separators away).
RECURSIVE Segments(_)
Segments(s) ==
    IF s = <<>> THEN <<>>
    ELSE LET i == IndexOf(s, <<"/">>)
         IN  IF i = 0 THEN <<s>>
             ELSE IF i = 1 THEN Segments(SubSeq(s, 2, Len(s)))
             ELSE <<SubSeq(s, 1, i - 1)>> \o Segments(SubSeq(s, i + 1, Len(s)))

\* path.join(projectDir, normalizedPattern), as a path below projectDir;
\* <<>> is projectDir itself.
FullPath(itemPattern) == Segments(NormalizedPattern(itemPattern))

(***************************************************************************)
(* The project directory                                                   *)
(***************************************************************************)

\* The removal patterns that occur in the configurations explored: 'a', 'a/b',
\* 'a/**/*', 'a/**/', 'a/**/b', 'b/**/*', '/**/*' and 'package.json'
Pat ==
    [A     |-> <<"a">>,
     AB    |-> <<"a", "/", "b">>,
     AAll  |-> <<"a", "/", "*", "*", "/", "*">>,
     ADir  |-> <<"a", "/", "*", "*", "/">>,
     AMidB |-> <<"a", "/", "*", "*", "/", "b">>,
     BAll  |-> <<"b", "/", "*", "*", "/", "*">>,
     Root  |-> <<"/", "*", "*", "/", "*">>,
     Pkg   |-> <<"package.json">>]

\* The paths the explored patterns resolve to
PathA   == << <<"a">> >>                 \* <projectDir>/a
PathAB  == << <<"a">>, <<"b">> >>        \* <projectDir>/a/b
PathB   == << <<"b">> >>                 \* <projectDir>/b
PathAb  == << <<"a", "b">> >>            \* <projectDir>/ab

\* path.join(projectDir, 'package.json')
PkgPath == << <<"package.json">> >>

\* path.join(projectDir, 'manifest.config.ts'), path.join(projectDir, 'manifest.json')
ManifestTsPath   == << <<"manifest.config", ".ts">> >>
ManifestJsonPath == << <<"manifest", ".json">> >>

\* The source files of the explored templates: <projectDir>/m.js and u.js
MainJs == << <<"m", ".js">> >>
UtilJs == << <<"u", ".js">> >>

\* Every path the explored patterns can name, with the directories above it
PatternPaths ==
    UNION { { SubSeq(FullPath(pat), 1, n) : n \in 0..Len(FullPath(pat)) } :
              pat \in { Pat[n] : n \in DOMAIN Pat } }
    \cup {PkgPath}

\* Every path of the project directory that is followed
Paths == PatternPaths \cup {ManifestTsPath, ManifestJsonPath, MainJs, UtilJs}

IsPrefix(p, q) == Len(p) <= Len(q) /\ SubSeq(q, 1, Len(p)) = p

\* An entry exists only inside a directory
WellFormed(t) ==
    \A p \in DOMAIN t : (p # <<>> /\ t[p] # "none") => t[SubSeq(p, 1, Len(p) - 1)] = "dir"

\* fs.pathExists
PathExists(t, p) == p \in Paths /\ t[p] # "none"

\* The order in which a recursive removal reaches the entries: the entries of
\* a directory in name order, each one's content before the entry itself.
RemovalOrder ==
    << PathAB, PathA, PathAb, PathB, MainJs, ManifestTsPath, ManifestJsonPath,
       PkgPath, UtilJs, <<>> >>

\* fs.remove(p): removes p and everything below it, entry by entry, and throws
\* at the first entry that cannot be removed, leaving the rest in place.
FsRemove(t, lk, p) ==
    LET reach(q)  == IsPrefix(p, q) /\ t[q] # "none"
        victims   == SelectSeq(RemovalOrder, reach)
        stuck     == { k \in 1..Len(victims) : victims[k] \in lk }
        stop      == IF stuck = {} THEN Len(victims) + 1
                     ELSE CHOOSE k \in stuck : \A j \in stuck : k <= j
        gone      == { victims[k] : k \in 1..(stop - 1) }
    IN  [ tree  |-> [q \in Paths |-> IF q \in gone THEN "none" ELSE t[q]],
          threw |-> stuck # {} ]

\* RemoveFilesResult with a slip: an absent target makes it remove the
\* directory above the target.
RemoveFilesParentWhenAbsent(t, lk, itemPattern) ==
    LET isDirectoryPattern == IsDirectoryPattern(itemPattern)
        fullPath           == FullPath(itemPattern)
        up                 == IF fullPath = <<>> THEN <<>>
                              ELSE SubSeq(fullPath, 1, Len(fullPath) - 1)
        removal            == FsRemove(t, lk, fullPath)
    IN  IF PathExists(t, fullPath)
        THEN IF t[fullPath] = "dir" \/ (t[fullPath] = "file" /\ ~isDirectoryPattern)
             THEN [ tree    |-> removal.tree,
                    outcome |-> IF removal.threw THEN "error" ELSE "removed",
                    threw   |-> FALSE ]
             ELSE [ tree |-> t, outcome |-> "skipped", threw |-> FALSE ]
        ELSE [ tree |-> FsRemove(t, lk, up).tree, outcome |-> "not-found", threw |-> FALSE ]

\* RemoveFilesResult with a slip: a directory is removed only when the
\* pattern ends in a directory suffix.
RemoveFilesDirsNeedSuffix(t, lk, itemPattern) ==
    LET isDirectoryPattern == IsDirectoryPattern(itemPattern)
        fullPath           == FullPath(itemPattern)
        removal            == FsRemove(t, lk, fullPath)
    IN  IF PathExists(t, fullPath)
        THEN IF (t[fullPath] = "dir" /\ isDirectoryPattern)
                \/ (t[fullPath] = "file" /\ ~isDirectoryPattern)
             THEN [ tree    |-> removal.tree,
                    outcome |-> IF removal.threw THEN "error" ELSE "removed",
                    threw   |-> FALSE ]
             ELSE [ tree |-> t, outcome |-> "skipped", threw |-> FALSE ]
        ELSE [ tree |-> t, outcome |-> "not-found", threw |-> FALSE ]

\* RemoveFilesResult with a slip: a file is removed whatever the pattern
\* ends in.
RemoveFilesIgnoresSuffix(t, lk, itemPattern) ==
    LET fullPath == FullPath(itemPattern)
        removal  == FsRemove(t, lk, fullPath)
    IN  IF PathExists(t, fullPath)
        THEN IF t[fullPath] \in {"dir", "file"}
             THEN [ tree    |-> removal.tree,
                    outcome |-> IF removal.threw THEN "error" ELSE "removed",
                    threw   |-> FALSE ]
             ELSE [ tree |-> t, outcome |-> "skipped", threw |-> FALSE ]
        ELSE [ tree |-> t, outcome |-> "not-found", threw |-> FALSE ]

\* RemoveFilesResult with a slip: fs.remove is called outside the try block,
\* so what it throws reaches the caller.
RemoveFilesUncaught(t, lk, itemPattern) ==
    LET isDirectoryPattern == IsDirectoryPattern(itemPattern)
        fullPath           == FullPath(itemPattern)
        removal            == FsRemove(t, lk, fullPath)
    IN  IF PathExists(t, fullPath)
        THEN IF t[fullPath] = "dir" \/ (t[fullPath] = "file" /\ ~isDirectoryPattern)
             THEN [ tree    |-> removal.tree,
                    outcome |-> IF removal.threw THEN "error" ELSE "removed",
                    threw   |-> removal.threw ]
             ELSE [ tree |-> t, outcome |-> "skipped", threw |-> FALSE ]
        ELSE [ tree |-> t, outcome |-> "not-found", threw |-> FALSE ]

\* removeFiles(projectDir, itemPattern): the tree it leaves and what it logged.
\* Every error raised inside is caught and logged as a warning.
RemoveFilesResult(t, lk, itemPattern) ==
    LET isDirectoryPattern == IsDirectoryPattern(itemPattern)
        fullPath           == FullPath(itemPattern)
        removal            == FsRemove(t, lk, fullPath)
    IN  IF PathExists(t, fullPath)
        THEN IF t[fullPath] = "dir" \/ (t[fullPath] = "file" /\ ~isDirectoryPattern)
             THEN [ tree    |-> removal.tree,
                    outcome |-> IF removal.threw THEN "error" ELSE "removed",
                    threw   |-> FALSE ]
             ELSE [ tree |-> t, outcome |-> "skipped", threw |-> FALSE ]
        ELSE [ tree |-> t, outcome |-> "not-found", threw |-> FALSE ]

(***************************************************************************)
(* template.config.json and the selections                                 *)
(*                                                                         *)
(* templateConfig is the sequence of the document's top-level entries in   *)
(* key order: [key, kind, items], kind being what typeof/Array.isArray say *)
(* of the value, items the entries of an object value in key order:        *)
(* [id, files, directories, dependencies, hasManifestKeys, manifestKeys,   *)
(* codePatterns], and value the string a string value is.  A dependency is *)
(* [name, version, dev]; version "" stands for an omitted version (the     *)
(* code tests dep.version for truthiness) and dev FALSE for an omitted     *)
(* dev.  hasManifestKeys tells an item with a manifestKeys array (which is *)
(* truthy even when empty) from one without.                               *)
(* userSelections is the sequence of [key, ids] in key order.              *)
(***************************************************************************)

RECURSIVE Flatten(_)
Flatten(ss) == IF ss = <<>> THEN <<>> ELSE Head(ss) \o Flatten(Tail(ss))

Range(s) == { s[k] : k \in 1..Len(s) }

\* typeof v === 'object' && v !== null && !Array.isArray(v)
IsPlainObject(entry) == entry.kind = "object"

\* The keys the removal loop of applyTemplateConfig takes for layers
LoopLayers(cfg) == { cfg[k].key : k \in { j \in 1..Len(cfg) : IsPlainObject(cfg[j]) } }

\* The keys promptOptions takes for layers, in the order it asks about them
PromptLayers(cfg) ==
    [k \in 1..Len(SelectSeq(cfg, LAMBDA e : IsPlainObject(e)
                                            /\ e.key \notin {"templateName", "templateType"}))
        |-> SelectSeq(cfg, LAMBDA e : IsPlainObject(e)
                                     /\ e.key \notin {"templateName", "templateType"})[k].key]

\* SelectedInLayer with a slip: a layer the selections do not name keeps
\* every item
SelectedInLayerKeepsAll(sel, layerKey) ==
    IF \E k \in 1..Len(sel) : sel[k].key = layerKey
    THEN sel[CHOOSE k \in 1..Len(sel) : sel[k].key = layerKey].ids
    ELSE <<"popup", "options", "dark">>

\* userSelections[layerKey] || []
SelectedInLayer(sel, layerKey) ==
    IF \E k \in 1..Len(sel) : sel[k].key = layerKey
    THEN sel[CHOOSE k \in 1..Len(sel) : sel[k].key = layerKey].ids
    ELSE <<>>

\* templateConfig.templateType
TemplateType(cfg) ==
    IF \E k \in 1..Len(cfg) : cfg[k].key = "templateType"
    THEN cfg[CHOOSE k \in 1..Len(cfg) : cfg[k].key = "templateType"].value
    ELSE ""

\* One call of the removal loop, made for item itemId of layer layerKey
Call(op, layerKey, itemId, pattern, keys, cp) ==
    [op |-> op, layer |-> layerKey, item |-> itemId, pattern |-> pattern,
     keys |-> keys, cp |-> cp]

NoCodePattern == [file |-> <<>>, pattern |-> <<>>, action |-> ""]

\* ItemCalls with a slip: the manifest is patched before the files and the
\* directories of the item are removed
ItemCallsPatchFirst(cfg, layerKey, item) ==
    (IF item.hasManifestKeys /\ TemplateType(cfg) = "chrome-extension"
     THEN << Call("updateManifest", layerKey, item.id, <<>>, item.manifestKeys,
                  NoCodePattern) >>
     ELSE <<>>)
    \o [k \in 1..Len(item.files) |->
        Call("removeFiles", layerKey, item.id, item.files[k], <<>>, NoCodePattern)]
    \o [k \in 1..Len(item.directories) |->
        Call("removeFiles", layerKey, item.id, item.directories[k], <<>>, NoCodePattern)]
    \o [k \in 1..Len(item.codePatterns) |->
        Call("processCodePattern", layerKey, item.id, <<>>, <<>>, item.codePatterns[k])]

\* ItemCalls with a slip: the template's type is not looked at
ItemCallsAnyType(cfg, layerKey, item) ==
    [k \in 1..Len(item.files) |->
        Call("removeFiles", layerKey, item.id, item.files[k], <<>>, NoCodePattern)]
    \o [k \in 1..Len(item.directories) |->
        Call("removeFiles", layerKey, item.id, item.directories[k], <<>>, NoCodePattern)]
    \o (IF item.hasManifestKeys
        THEN << Call("updateManifest", layerKey, item.id, <<>>, item.manifestKeys,
                     NoCodePattern) >>
        ELSE <<>>)
    \o [k \in 1..Len(item.codePatterns) |->
        Call("processCodePattern", layerKey, item.id, <<>>, <<>>, item.codePatterns[k])]

\* The calls made for one unselected item: removeFiles for its files, then
\* for its directories, then updateManifest when the item has manifestKeys
\* and the template is a chrome-extension, then processCodePattern for each
\* of its code patterns
ItemCalls(cfg, layerKey, item) ==
    [k \in 1..Len(item.files) |->
        Call("removeFiles", layerKey, item.id, item.files[k], <<>>, NoCodePattern)]
    \o [k \in 1..Len(item.directories) |->
        Call("removeFiles", layerKey, item.id, item.directories[k], <<>>, NoCodePattern)]
    \o (IF item.hasManifestKeys /\ TemplateType(cfg) = "chrome-extension"
        THEN << Call("updateManifest", layerKey, item.id, <<>>, item.manifestKeys,
                     NoCodePattern) >>
        ELSE <<>>)
    \o [k \in 1..Len(item.codePatterns) |->
        Call("processCodePattern", layerKey, item.id, <<>>, <<>>, item.codePatterns[k])]

\* UnselectedItems with the test of the selection inverted
UnselectedItemsInverted(entry, sel) ==
    SelectSeq(entry.items, LAMBDA item : item.id \in Range(SelectedInLayer(sel, entry.key)))

\* The items of a top-level entry that the removal loop treats as unselected
UnselectedItems(entry, sel) ==
    SelectSeq(entry.items, LAMBDA item : item.id \notin Range(SelectedInLayer(sel, entry.key)))

\* ApplyCalls with a slip: updateDependencies is called inside the loop over
\* the layers, once for each
ApplyCallsPerLayer(cfg, sel) ==
    LET layerCalls(entry) ==
            IF entry.key \in LoopLayers(cfg)
            THEN LET un == UnselectedItems(entry, sel)
                 IN  Flatten([k \in 1..Len(un) |-> ItemCalls(cfg, entry.key, un[k])])
                     \o << Call("updateDependencies", "", "", <<>>, <<>>, NoCodePattern) >>
            ELSE <<>>
    IN  Flatten([k \in 1..Len(cfg) |-> layerCalls(cfg[k])])

\* The calls applyTemplateConfig makes, in order: those of every unselected
\* item of every object-valued top-level key, then updateDependencies.  No
\* loop depends on the disk, so the sequence is a function of the two
\* inputs; it is cut short when a call throws (see the actions).
ApplyCalls(cfg, sel) ==
    LET layerCalls(entry) ==
            IF entry.key \in LoopLayers(cfg)
            THEN LET un == UnselectedItems(entry, sel)
                 IN  Flatten([k \in 1..Len(un) |-> ItemCalls(cfg, entry.key, un[k])])
            ELSE <<>>
    IN  Flatten([k \in 1..Len(cfg) |-> layerCalls(cfg[k])])
        \o << Call("updateDependencies", "", "", <<>>, <<>>, NoCodePattern) >>

(***************************************************************************)
(* package.json                                                            *)
(*                                                                         *)
(* pkg is [json, hasDeps, dependencies, hasDev, devDependencies]: whether   *)
(* the file parses as JSON, whether each of the two keys holds a truthy    *)
(* value, and the two maps, functions from names to version strings.       *)
(***************************************************************************)

EmptyMap == [n \in {} |-> ""]

\* No package.json content (the file is not there)
NoPkg == [json |-> FALSE, hasDeps |-> FALSE, dependencies |-> EmptyMap,
          hasDev |-> FALSE, devDependencies |-> EmptyMap]

\* const coreDeps / const coreDevDeps
CoreDeps    == {"vue", "vue-router", "webextension-polyfill"}
CoreDevDeps == {"vite", "@vitejs/plugin-vue", "@crxjs/vite-plugin", "typescript"}

\* The keys updateDependencies skips when it scans for possible dependencies
ScanSkippedKeys ==
    {"templateType", "templateName", "templateDescription", "templateAuthor", "version"}

\* JavaScript truthiness of a version string
Truthy(v) == v # ""

\* map[name] = version
MapSet(m, name, version) ==
    [n \in (DOMAIN m) \cup {name} |-> IF n = name THEN version ELSE m[n]]

\* The keys the scan for possible dependencies takes for layers
ScanLayers(cfg) ==
    { cfg[k].key : k \in { j \in 1..Len(cfg) :
                             IsPlainObject(cfg[j]) /\ cfg[j].key \notin ScanSkippedKeys } }

\* templateConfig[layerKey], as the items it can be indexed for: none when
\* the key is absent or holds a falsy or scalar value
LayerConfig(cfg, layerKey) ==
    IF \E k \in 1..Len(cfg) : cfg[k].key = layerKey /\ cfg[k].kind \in {"object", "array"}
    THEN cfg[CHOOSE k \in 1..Len(cfg) : cfg[k].key = layerKey].items
    ELSE <<>>

\* The dependency entries of the selected items, in the order both loops over
\* userSelections visit them; an id the layer does not define contributes none.
SelectedDependencies(cfg, sel) ==
    LET ofId(layerItems, itemId) ==
            IF \E k \in 1..Len(layerItems) : layerItems[k].id = itemId
            THEN layerItems[CHOOSE k \in 1..Len(layerItems) : layerItems[k].id = itemId]
                     .dependencies
            ELSE <<>>
        ofLayer(s) ==
            Flatten([k \in 1..Len(s.ids) |-> ofId(LayerConfig(cfg, s.key), s.ids[k])])
    IN  Flatten([k \in 1..Len(sel) |-> ofLayer(sel[k])])

\* The dependency entries of every item of every layer the scan visits
PossibleDependencies(cfg) ==
    LET ofLayer(entry) ==
            IF entry.key \in ScanLayers(cfg)
            THEN Flatten([k \in 1..Len(entry.items) |-> entry.items[k].dependencies])
            ELSE <<>>
    IN  Flatten([k \in 1..Len(cfg) |-> ofLayer(cfg[k])])

NamesOf(depSeq, dev) == { d.name : d \in { e \in Range(depSeq) : e.dev = dev } }

RequiredDeps(cfg, sel)    == CoreDeps \cup NamesOf(SelectedDependencies(cfg, sel), FALSE)
RequiredDevDeps(cfg, sel) == CoreDevDeps \cup NamesOf(SelectedDependencies(cfg, sel), TRUE)
AllPossibleDeps(cfg)      == NamesOf(PossibleDependencies(cfg), FALSE)
AllPossibleDevDeps(cfg)   == NamesOf(PossibleDependencies(cfg), TRUE)

\* Pruned with a slip: every name that is not required is deleted, declared
\* by the configuration or not
PrunedAllNotRequired(m, possible, required) ==
    [n \in { x \in DOMAIN m : ~(x \notin required /\ Truthy(m[x])) } |-> m[n]]

\* Pruned with a slip: the required names are not spared
PrunedAllPossible(m, possible, required) ==
    [n \in { x \in DOMAIN m : ~(x \in possible /\ Truthy(m[x])) } |-> m[n]]

\* The removal loops: delete every possible name that is not required and
\* whose entry in the map is truthy
Pruned(m, possible, required) ==
    [n \in { x \in DOMAIN m : ~(x \in possible /\ x \notin required /\ Truthy(m[x])) }
        |-> m[n]]

\* Versioned with a slip: a version is written only for a name the map
\* does not hold yet
RECURSIVE VersionedIfAbsent(_, _, _)
VersionedIfAbsent(m, depSeq, dev) ==
    IF depSeq = <<>> THEN m
    ELSE LET d == Head(depSeq)
         IN  VersionedIfAbsent(IF Truthy(d.version) /\ d.dev = dev /\ d.name \notin DOMAIN m
                               THEN MapSet(m, d.name, d.version) ELSE m,
                               Tail(depSeq), dev)

\* The version loop: every selected entry with a truthy version is written
\* to the map its dev flag names, in order
RECURSIVE Versioned(_, _, _)
Versioned(m, depSeq, dev) ==
    IF depSeq = <<>> THEN m
    ELSE LET d == Head(depSeq)
         IN  Versioned(IF Truthy(d.version) /\ d.dev = dev
                       THEN MapSet(m, d.name, d.version) ELSE m,
                       Tail(depSeq), dev)

\* An entry of a dependencies array is null: reading dep.dev throws a
\* TypeError, in the loop that collects the required names or in the scan for
\* the possible ones, both of which run before package.json is changed
HasNull(depSeq) == \E k \in 1..Len(depSeq) : "null" \in DOMAIN depSeq[k]

\* UpdateDependenciesResult with a slip: package.json is also written right
\* after the two keys are ensured, before the loops
UpdateDependenciesResultEarlyWrite(t, pk, cfg, sel) ==
    LET deps     == IF pk.hasDeps THEN pk.dependencies ELSE EmptyMap
        devDeps  == IF pk.hasDev THEN pk.devDependencies ELSE EmptyMap
        selected == SelectedDependencies(cfg, sel)
    IN  IF ~PathExists(t, PkgPath)
        THEN [pkg |-> pk, outcome |-> "skipped", threw |-> FALSE]
        ELSE IF t[PkgPath] # "file" \/ ~pk.json
        THEN [pkg |-> pk, outcome |-> "error", threw |-> FALSE]
        ELSE IF HasNull(SelectedDependencies(cfg, sel) \o PossibleDependencies(cfg))
        THEN [pkg |-> [json |-> TRUE, hasDeps |-> TRUE, dependencies |-> deps,
                       hasDev |-> TRUE, devDependencies |-> devDeps],
              outcome |-> "error", threw |-> FALSE]
        ELSE [pkg |->
                [json            |-> TRUE,
                 hasDeps         |-> TRUE,
                 dependencies    |->
                    Versioned(Pruned(deps, AllPossibleDeps(cfg), RequiredDeps(cfg, sel)),
                              selected, FALSE),
                 hasDev          |-> TRUE,
                 devDependencies |->
                    Versioned(Pruned(devDeps, AllPossibleDevDeps(cfg),
                                     RequiredDevDeps(cfg, sel)),
                              selected, TRUE)],
              outcome |-> "updated", threw |-> FALSE]

\* UpdateDependenciesResult with a slip: the pathExists test is missing, so
\* readJson throws on an absent package.json and the catch logs an error
UpdateDependenciesResultNoGuard(t, pk, cfg, sel) ==
    LET deps     == IF pk.hasDeps THEN pk.dependencies ELSE EmptyMap
        devDeps  == IF pk.hasDev THEN pk.devDependencies ELSE EmptyMap
        selected == SelectedDependencies(cfg, sel)
    IN  IF t[PkgPath] # "file" \/ ~pk.json
        THEN [pkg |-> pk, outcome |-> "error", threw |-> FALSE]
        ELSE IF HasNull(SelectedDependencies(cfg, sel) \o PossibleDependencies(cfg))
        THEN [pkg |-> pk, outcome |-> "error", threw |-> FALSE]
        ELSE [pkg |->
                [json            |-> TRUE,
                 hasDeps         |-> TRUE,
                 dependencies    |->
                    Versioned(Pruned(deps, AllPossibleDeps(cfg), RequiredDeps(cfg, sel)),
                              selected, FALSE),
                 hasDev          |-> TRUE,
                 devDependencies |->
                    Versioned(Pruned(devDeps, AllPossibleDevDeps(cfg),
                                     RequiredDevDeps(cfg, sel)),
                              selected, TRUE)],
              outcome |-> "updated", threw |-> FALSE]

\* updateDependencies(projectDir, templateConfig, userSelections): the content
\* of package.json it leaves and what it logged.  readJson throws when the
\* entry is not a readable JSON file; the error is caught and logged.
UpdateDependenciesResult(t, pk, cfg, sel) ==
    LET deps     == IF pk.hasDeps THEN pk.dependencies ELSE EmptyMap
        devDeps  == IF pk.hasDev THEN pk.devDependencies ELSE EmptyMap
        selected == SelectedDependencies(cfg, sel)
    IN  IF ~PathExists(t, PkgPath)
        THEN [pkg |-> pk, outcome |-> "skipped", threw |-> FALSE]
        ELSE IF t[PkgPath] # "file" \/ ~pk.json
        THEN [pkg |-> pk, outcome |-> "error", threw |-> FALSE]
        ELSE IF HasNull(SelectedDependencies(cfg, sel) \o PossibleDependencies(cfg))
        THEN [pkg |-> pk, outcome |-> "error", threw |-> FALSE]
        ELSE [pkg |->
                [json            |-> TRUE,
                 hasDeps         |-> TRUE,
                 dependencies    |->
                    Versioned(Pruned(deps, AllPossibleDeps(cfg), RequiredDeps(cfg, sel)),
                              selected, FALSE),
                 hasDev          |-> TRUE,
                 devDependencies |->
                    Versioned(Pruned(devDeps, AllPossibleDevDeps(cfg),
                                     RequiredDevDeps(cfg, sel)),
                              selected, TRUE)],
              outcome |-> "updated", threw |-> FALSE]

(***************************************************************************)
(* manifest.config.ts                                                      *)
(*                                                                         *)
(* The content of the file is a sequence of one-character strings, a key   *)
(* of manifestKeys likewise (a key holds no regular-expression operator).  *)
(* A position is the index of the next character to read; 0 is "no match". *)
(* Each regular expression is matched the way the backtracking matcher     *)
(* does: the first alternative, and for each quantifier the first length   *)
(* in its order of preference, that lets the rest of the expression match. *)
(***************************************************************************)

\* \s
IsSpace(c) == c \in {" ", "\t", "\n", "\r", "\f"}

Least(S) == CHOOSE x \in S : \A y \in S : x <= y
Most(S)  == CHOOSE x \in S : \A y \in S : x >= y

\* The end of the longest run of characters outside stop that starts at i
Until(s, i, stop) ==
    Least({ j \in i..(Len(s) + 1) : j = Len(s) + 1 \/ s[j] \in stop })

\* \s* taken greedily from i
SkipSpace(s, i) ==
    Least({ j \in i..(Len(s) + 1) : j = Len(s) + 1 \/ ~IsSpace(s[j]) })

\* (?:\{[^{}]*\}[^{}]*)*} from r, the first brace after the opening one:
\* a closing brace ends the literal, an opening one starts an inner literal
\* that has to close at the next brace, r2
RECURSIVE ObjTail(_, _)
RECURSIVE ObjInner(_, _)
ObjTail(s, r) ==
    IF r > Len(s) THEN 0
    ELSE IF s[r] = "}" THEN r + 1
    ELSE ObjInner(s, Until(s, r + 1, {"{", "}"}))
ObjInner(s, r2) ==
    IF r2 > Len(s) \/ s[r2] # "}" THEN 0
    ELSE ObjTail(s, Until(s, r2 + 1, {"{", "}"}))

\* {[^{}]*(?:\{[^{}]*\}[^{}]*)*} at q: an object literal with at most one
\* level of object literals inside
ObjEnd(s, q) ==
    IF q <= Len(s) /\ s[q] = "{" THEN ObjTail(s, Until(s, q + 1, {"{", "}"})) ELSE 0

\* (?:\[[^\[\]]*\][^\[\]]*)*\] from r, the first bracket after the opening one
RECURSIVE ArrTail(_, _)
RECURSIVE ArrInner(_, _)
ArrTail(s, r) ==
    IF r > Len(s) THEN 0
    ELSE IF s[r] = "]" THEN r + 1
    ELSE ArrInner(s, Until(s, r + 1, {"[", "]"}))
ArrInner(s, r2) ==
    IF r2 > Len(s) \/ s[r2] # "]" THEN 0
    ELSE ArrTail(s, Until(s, r2 + 1, {"[", "]"}))

\* \[[^\[\]]*(?:\[[^\[\]]*\][^\[\]]*)*\] at q
ArrEnd(s, q) ==
    IF q <= Len(s) /\ s[q] = "[" THEN ArrTail(s, Until(s, q + 1, {"[", "]"})) ELSE 0

\* The closing quote of "[^"]*" or '[^']*', found at r
StrClose(s, r) == IF r > Len(s) THEN 0 ELSE r + 1

\* "[^"]*" or '[^']*' at q
StrEnd(s, q, quote) ==
    IF q <= Len(s) /\ s[q] = quote THEN StrClose(s, Until(s, q + 1, {quote})) ELSE 0

\* The lookahead at e, w being where the white space after e ends
LookaheadAt(s, e, w, kind) ==
    \/ /\ w <= Len(s)
       /\ s[w] \in (CASE kind = "leading"  -> {",", "}"}
                      [] kind = "trailing" -> {","}
                      [] kind = "standard" -> {"}"})
    \/ /\ kind # "trailing"
       /\ \/ w > Len(s)
          \/ \E j \in e..(w - 1) : s[j] \in {"\n", "\r"}

\* The lookahead that closes each of the three expressions, at e:
\*   leading   (?=\s*[,}]|\s*$|\r?\n)
\*   trailing  (?=\s*,)
\*   standard  (?=\s*[}]|\s*$|\r?\n)
\* (\r?\n at e is a case of \s*$, $ matching before a line terminator)
Lookahead(s, e, kind) == LookaheadAt(s, e, SkipSpace(s, e), kind)

\* e when an alternative ended at e and the lookahead holds there
Closed(s, e, kind) == IF e # 0 /\ Lookahead(s, e, kind) THEN e ELSE 0

\* [^,}]*?({...}): the places where the lazy run can stop at an object
\* literal that the lookahead closes
ObjStarts(s, p, kind) ==
    { q \in p..(Until(s, p, {",", "}"}) - 1) : Closed(s, ObjEnd(s, q), kind) # 0 }

\* [^,}\]\r\n]*: the ends of the run that the lookahead closes
BareEnds(s, p, kind) ==
    { e \in p..Until(s, p, {",", "}", "]", "\r", "\n"}) : Lookahead(s, e, kind) }

\* The first alternative that matches, the lazy run as short and the greedy
\* run as long as can be
ValuePick(s, objStarts, arr, dq, sq, bareEnds) ==
    IF objStarts # {} THEN ObjEnd(s, Least(objStarts))
    ELSE IF arr # 0 THEN arr
    ELSE IF dq # 0 THEN dq
    ELSE IF sq # 0 THEN sq
    ELSE IF bareEnds # {} THEN Most(bareEnds)
    ELSE 0

\* The value alternatives from p, closed by the lookahead:
\*   [^,}]*?({...}) | \[...\] | "[^"]*" | '[^']*' | [^,}\]\r\n]*
ValueEnd(s, p, kind) ==
    ValuePick(s, ObjStarts(s, p, kind), Closed(s, ArrEnd(s, p), kind),
              Closed(s, StrEnd(s, p, "\""), kind), Closed(s, StrEnd(s, p, "'"), kind),
              BareEnds(s, p, kind))

\* The value from the last of the places where it can start
ValueFrom(s, starts, kind) ==
    IF starts = {} THEN 0 ELSE ValueEnd(s, Most(starts), kind)

\* \s*:\s*(value) from c, where the white space after the key ends; the \s*
\* before the value gives white space back, longest first, until the value
\* matches
BlockValue(s, c, kind) ==
    IF c <= Len(s) /\ s[c] = ":"
    THEN ValueFrom(s, { p \in (c + 1)..SkipSpace(s, c + 1) : ValueEnd(s, p, kind) # 0 },
                   kind)
    ELSE 0

\* key\s*:\s*(value) at i, closed by the lookahead
BlockEnd(s, i, key, kind) ==
    IF i + Len(key) - 1 <= Len(s) /\ SubSeq(s, i, i + Len(key) - 1) = key
    THEN BlockValue(s, SkipSpace(s, i + Len(key)), kind)
    ELSE 0

\* One match of leadingCommaRegex, trailingCommaRegex or standardRegex at i
MatchEnd(s, i, key, kind) ==
    IF kind = "leading"
    THEN IF i <= Len(s) /\ s[i] = "," THEN BlockEnd(s, SkipSpace(s, i + 1), key, kind) ELSE 0
    ELSE BlockEnd(s, i, key, kind)

\* Where the expression matches, from position from on
MatchStarts(s, from, key, kind) ==
    { i \in from..Len(s) : MatchEnd(s, i, key, kind) # 0 }

\* content.match(regex): the g flag makes it every match, null when none
Matches(s, key, kind) == MatchStarts(s, 1, key, kind) # {}

\* content.replace(regex, ''): every match from the left, none overlapping
RECURSIVE RegexRemoved(_, _, _, _)
RECURSIVE RegexRemovedAt(_, _, _, _, _)
RegexRemoved(s, from, key, kind) ==
    RegexRemovedAt(s, from, key, kind, MatchStarts(s, from, key, kind))
RegexRemovedAt(s, from, key, kind, at) ==
    IF at = {} THEN SubSeq(s, from, Len(s))
    ELSE SubSeq(s, from, Least(at) - 1)
         \o RegexRemoved(s, MatchEnd(s, Least(at), key, kind), key, kind)

\* Where /,(\s*,|\s*\}|\s*\])/ matches, from position from on
CleanupStarts(s, from) ==
    { i \in from..Len(s) :
        /\ s[i] = ","
        /\ SkipSpace(s, i + 1) <= Len(s)
        /\ s[SkipSpace(s, i + 1)] \in {",", "}", "]"} }

\* content.replace(/,(\s*,|\s*\}|\s*\])/g, '$1'): a comma followed, after
\* white space, by a comma or a closing brace or bracket is dropped
RECURSIVE CleanedUp(_, _)
RECURSIVE CleanedUpAt(_, _, _)
CleanedUp(s, from) == CleanedUpAt(s, from, CleanupStarts(s, from))
CleanedUpAt(s, from, at) ==
    IF at = {} THEN SubSeq(s, from, Len(s))
    ELSE SubSeq(s, from, Least(at) - 1)
         \o SubSeq(s, Least(at) + 1, SkipSpace(s, Least(at) + 1))
         \o CleanedUp(s, SkipSpace(s, Least(at) + 1) + 1)

\* The first of the three expressions that matches: "none" when none does
MatchedKind(content, key) ==
    IF Matches(content, key, "leading") THEN "leading"
    ELSE IF Matches(content, key, "trailing") THEN "trailing"
    ELSE IF Matches(content, key, "standard") THEN "standard"
    ELSE "none"

\* The block removed with the expression that matched
BlockRemoved(content, key, kind) ==
    IF kind = "none" THEN content ELSE RegexRemoved(content, 1, key, kind)

\* The body of the loop over keys for one key, keep being false
KeyRemoved(content, key) ==
    CleanedUp(BlockRemoved(content, key, MatchedKind(content, key)), 1)


\* The loop over keys: the content it ends with
RECURSIVE KeysRemoved(_, _)
KeysRemoved(content, keys) ==
    IF keys = <<>> THEN content
    ELSE KeysRemoved(KeyRemoved(content, Head(keys)), Tail(keys))

\* The loop over keys: whether it ends with changed set
RECURSIVE KeysChanged(_, _)
KeysChanged(content, keys) ==
    IF keys = <<>> THEN FALSE
    ELSE MatchedKind(content, Head(keys)) # "none"
         \/ KeysChanged(KeyRemoved(content, Head(keys)), Tail(keys))

(***************************************************************************)
(* updateManifest                                                          *)
(*                                                                         *)
(* The content of manifest.config.ts is the character sequence, <<>> when  *)
(* there is no such file.  The content of manifest.json is [json, map]:    *)
(* whether the file parses, and its top-level keys with their values, a    *)
(* value being a string whose truthiness is tested ("" is falsy).          *)
(***************************************************************************)

NoManifestTs   == <<>>
NoManifestJson == [json |-> FALSE, map |-> EmptyMap]

\* manifestPath.endsWith('.json')
IsJsonPath(manifestPath) == EndsWith(manifestPath[Len(manifestPath)], <<".json">>)

\* The JSON branch: delete manifest[key] for every key whose value is truthy
JsonKeysRemoved(map, keys) ==
    [k \in { x \in DOMAIN map : ~(x \in Range(keys) /\ Truthy(map[x])) } |-> map[k]]

\* What one manifest path of the loop over manifestPaths does, keep being
\* false: "absent" when the path does not exist, "error" when reading or
\* parsing throws (caught in the loop, which goes on to the next path),
\* "updated" when the function returns after it.
ManifestVisit(t, ts, js, manifestPath, keys) ==
    IF ~PathExists(t, manifestPath)
    THEN [manifestTs |-> ts, manifestJson |-> js, outcome |-> "absent", written |-> {},
          threw |-> FALSE]
    ELSE IF t[manifestPath] # "file" \/ (IsJsonPath(manifestPath) /\ ~js.json)
    THEN [manifestTs |-> ts, manifestJson |-> js, outcome |-> "error", written |-> {},
          threw |-> FALSE]
    ELSE IF IsJsonPath(manifestPath)
    THEN [manifestTs |-> ts,
          manifestJson |-> [json |-> TRUE, map |-> JsonKeysRemoved(js.map, keys)],
          outcome |-> "updated", written |-> {manifestPath}, threw |-> FALSE]
    ELSE [manifestTs |-> IF KeysChanged(ts, keys) THEN KeysRemoved(ts, keys) ELSE ts,
          manifestJson |-> js,
          outcome |-> "updated",
          written |-> IF KeysChanged(ts, keys) THEN {manifestPath} ELSE {},
          threw |-> FALSE]

\* FirstUpdated with a slip: the return after the first manifest is missing,
\* so the loop goes on to patch the second one too
FirstUpdatedNoReturn(first, second) ==
    IF first.outcome = "updated" /\ second.outcome = "updated"
    THEN [second EXCEPT !.manifestTs = first.manifestTs,
                        !.written = first.written \cup second.written]
    ELSE IF first.outcome = "updated" THEN first
    ELSE IF second.outcome = "updated"
    THEN [second EXCEPT !.outcome = IF first.outcome = "error" THEN "error" ELSE "updated"]
    ELSE [second EXCEPT !.outcome = IF "error" \in {first.outcome, second.outcome}
                                    THEN "error" ELSE "none"]

\* The loop over manifestPaths: the first path that is updated ends it, and a
\* path that threw has logged its warning by then
FirstUpdated(first, second) ==
    IF first.outcome = "updated" THEN first
    ELSE IF second.outcome = "updated"
    THEN [second EXCEPT !.outcome = IF first.outcome = "error" THEN "error" ELSE "updated"]
    ELSE [second EXCEPT !.outcome = IF "error" \in {first.outcome, second.outcome}
                                    THEN "error" ELSE "none"]

\* updateManifest(projectDir, keys, false): the contents it leaves, the files
\* it wrote, and whether it updated a manifest ("updated"), found none
\* ("none") or gave up after a warning ("error")
UpdateManifestResult(t, ts, js, keys) ==
    FirstUpdated(ManifestVisit(t, ts, js, ManifestTsPath, keys),
                 ManifestVisit(t, ts, js, ManifestJsonPath, keys))

(***************************************************************************)
(* processCodePattern                                                      *)
(*                                                                         *)
(* A code pattern is [file, pattern, action]: the glob, the source of the  *)
(* regular expression and the action.  The sources explored are plain      *)
(* text, which matches itself, and '(', which does not compile.  A glob is *)
(* a file name of the project directory, '*' standing for any characters.  *)
(***************************************************************************)

\* new RegExp(patternStr, 'g') throws a SyntaxError
RegexCompiles(patternStr) == "(" \notin Range(patternStr)

\* The pattern matches at i
OccursAt(s, i, sub) ==
    i + Len(sub) - 1 <= Len(s) /\ SubSeq(s, i, i + Len(sub) - 1) = sub

\* content.match(regex)
PatternMatches(s, sub) == \E i \in 1..(Len(s) + 1) : OccursAt(s, i, sub)

\* Where the pattern matches, from position from on
PatternStarts(s, from, sub) == { i \in from..(Len(s) + 1) : OccursAt(s, i, sub) }

\* content.replace(regex, '') had the expression no g flag: the first match
PatternRemovedOnce(s, from, sub) ==
    IF PatternStarts(s, from, sub) = {} THEN SubSeq(s, from, Len(s))
    ELSE SubSeq(s, from, Least(PatternStarts(s, from, sub)) - 1)
         \o SubSeq(s, Least(PatternStarts(s, from, sub)) + Len(sub), Len(s))

\* content.replace(regex, ''): every match from the left, none overlapping;
\* after an empty match the search moves on by one character
RECURSIVE PatternRemoved(_, _, _)
RECURSIVE PatternRemovedAt(_, _, _, _)
PatternRemoved(s, from, sub) == PatternRemovedAt(s, from, sub, PatternStarts(s, from, sub))
PatternRemovedAt(s, from, sub, at) ==
    IF at = {} THEN SubSeq(s, from, Len(s))
    ELSE IF sub = <<>>
    THEN IF Least(at) > Len(s) THEN <<>>
         ELSE <<s[Least(at)]>> \o PatternRemoved(s, Least(at) + 1, sub)
    ELSE SubSeq(s, from, Least(at) - 1) \o PatternRemoved(s, Least(at) + Len(sub), sub)

\* The source files in the order globby lists them
CodeFiles == <<MainJs, UtilJs>>

\* Whether the glob matches the file: '*' followed by the ending of the
\* name, or the name itself
GlobMatches(glob, path) ==
    LET name == path[Len(path)]
    IN  Len(path) = 1
        /\ IF glob # <<>> /\ Head(glob) = "*" THEN EndsWith(name, Tail(glob))
           ELSE glob = name

\* globby(pattern.file, {cwd: projectDir, onlyFiles: true}); no explored
\* template has a .gitignore
Globbed(t, glob) ==
    SelectSeq(CodeFiles, LAMBDA f : t[f] = "file" /\ GlobMatches(glob, f))

\* The files of the loop that are rewritten: the expression compiles, the
\* action is 'keep' and content.match finds the pattern
PrunedFiles(filePaths, cd, cp) ==
    { f \in filePaths :
        /\ RegexCompiles(cp.pattern)
        /\ cp.action = "keep"
        /\ PatternMatches(cd[f], cp.pattern) }

\* The loop over filePaths, hit being the files it rewrites
CodePruned(filePaths, hit, cd, cp) ==
    [code    |-> [f \in DOMAIN cd |->
                    IF f \in hit THEN PatternRemoved(cd[f], 1, cp.pattern) ELSE cd[f]],
     written |-> hit,
     outcome |-> IF filePaths # {} /\ ~RegexCompiles(cp.pattern) THEN "error"
                 ELSE IF hit # {} THEN "pruned" ELSE "none",
     threw   |-> FALSE]

\* processCodePattern(projectDir, pattern): the contents it leaves, the files
\* it wrote, and what it logged: "error" when compiling the expression threw
\* for a file (caught per file), "pruned" when it rewrote a file, else "none"
ProcessCodePatternResult(t, cd, cp) ==
    CodePruned(Range(Globbed(t, cp.file)),
               PrunedFiles(Range(Globbed(t, cp.file)), cd, cp), cd, cp)

(***************************************************************************)
(* The inputs explored                                                     *)
(***************************************************************************)

\* An item with every field it can carry
FullItem(id, files, directories, dependencies, hasKeys, manifestKeys, codePatterns) ==
    [id |-> id, files |-> files, directories |-> directories,
     dependencies |-> dependencies, hasManifestKeys |-> hasKeys,
     manifestKeys |-> manifestKeys, codePatterns |-> codePatterns]

\* An item without manifestKeys and codePatterns
Item(id, files, directories, dependencies) ==
    FullItem(id, files, directories, dependencies, FALSE, <<>>, <<>>)

CodePattern(file, pattern, action) ==
    [file |-> file, pattern |-> pattern, action |-> action]

Dep(name, version, dev) == [name |-> name, version |-> version, dev |-> dev]

\* { templateType: 'chrome-extension', pages: { popup: {...}, options: {...} } }
Config(popup, options) ==
    << [key |-> "templateType", kind |-> "string", items |-> <<>>,
        value |-> "chrome-extension"],
       [key |-> "pages", kind |-> "object", items |-> <<popup, options>>, value |-> ""] >>

\* userSelections: no key for the layer, or the layer's key with a list of ids
Selections ==
    { <<>> } \cup
    { << [key |-> "pages", ids |-> ids] >> :
        ids \in { <<>>, <<"popup">>, <<"options">>, <<"popup", "options">>,
                  <<"options", "popup">> } }

Map1(n1, v1)         == [n \in {n1} |-> v1]
Map2(n1, v1, n2, v2) == [n \in {n1, n2} |-> IF n = n1 THEN v1 ELSE v2]

\* A package.json that parses and holds both maps
Pkg(dependencies, devDependencies) ==
    [json |-> TRUE, hasDeps |-> TRUE, dependencies |-> dependencies,
     hasDev |-> TRUE, devDependencies |-> devDependencies]

\* The maps of a package.json explored.  The core names "vue" and "vite" are
\* where a template keeps them; "vue" may also be a devDependency; "pinia" and
\* "lodash" are absent or present, "pinia" possibly with the empty version
\* string (which npm reads as any version).
\* The package.json contents explored: every pair of maps, one file without
\* the two keys, and one file that is not JSON
InitPkgs ==
    { Pkg(d, dd) :
        d \in { m \in UNION { [dom -> {"", "^1.0.0"}] :
                                dom \in { {"vue"} \cup x :
                                            x \in SUBSET {"pinia", "lodash"} } } :
                  \A n \in DOMAIN m : m[n] = "" => n = "pinia" },
        dd \in UNION { [dom -> {"^1.0.0"}] :
                         dom \in { {"vite"} \cup x : x \in SUBSET {"vue", "pinia"} } } }
    \cup { [json |-> TRUE, hasDeps |-> FALSE, dependencies |-> EmptyMap,
            hasDev |-> FALSE, devDependencies |-> EmptyMap],
           [json |-> FALSE, hasDeps |-> FALSE, dependencies |-> EmptyMap,
            hasDev |-> FALSE, devDependencies |-> EmptyMap] }

\* The entries every explored template has besides those the patterns name:
\* manifest.config.ts and the two source files, and no manifest.json
FixedKind(p) == IF p = ManifestJsonPath THEN "none" ELSE "file"

\* The project trees explored: projectDir is a directory, and below it any
\* well-formed choice of entries.  What lstat reports for an entry is a
\* regular file, a directory, or something that is neither (a symbolic link,
\* a FIFO, a socket); "none" is no entry.
InitTrees ==
    { [p \in Paths |-> IF p \in PatternPaths THEN t[p] ELSE FixedKind(p)] :
        t \in { u \in [PatternPaths -> {"none", "file", "dir", "other"}] :
                  /\ WellFormed(u)
                  /\ u[<<>>] = "dir"
                  /\ u[PkgPath] = "file"
                  /\ u[PathB] \in {"none", "file", "dir"}
                  /\ u[PathAb] \in {"none", "file"} } }

\* One tree for the runs that explore package.json
PlainTree ==
    [p \in Paths |-> IF p \in {<<>>, PathA} THEN "dir"
                     ELSE IF p \in {PathAB, PkgPath} THEN "file"
                     ELSE IF p \in PatternPaths THEN "none" ELSE FixedKind(p)]

(***************************************************************************)
(* The state machine                                                       *)
(***************************************************************************)

\* What the files of a directory hold
DiskOf(t, pk, ts, js, cd) ==
    [tree |-> t, pkg |-> pk, manifestTs |-> ts, manifestJson |-> js, code |-> cd]

NoCode == [f \in Range(CodeFiles) |-> <<>>]

\* A file that is gone has no content left
Normalized(d) ==
    [ tree         |-> d.tree,
      pkg          |-> IF d.tree[PkgPath] = "none" THEN NoPkg ELSE d.pkg,
      manifestTs   |-> IF d.tree[ManifestTsPath] = "none" THEN NoManifestTs
                       ELSE d.manifestTs,
      manifestJson |-> IF d.tree[ManifestJsonPath] = "none" THEN NoManifestJson
                       ELSE d.manifestJson,
      code         |-> [f \in DOMAIN d.code |->
                          IF d.tree[f] = "none" THEN <<>> ELSE d.code[f]] ]

\* The project directory and the report after each of the four calls
AfterRemoveFiles(d, res) ==
    [disk    |-> Normalized([d EXCEPT !.tree = res.tree]),
     outcome |-> res.outcome, written |-> {}, threw |-> res.threw]

AfterUpdateManifest(d, res) ==
    [disk    |-> [d EXCEPT !.manifestTs = res.manifestTs,
                           !.manifestJson = res.manifestJson],
     outcome |-> res.outcome, written |-> res.written, threw |-> res.threw]

AfterProcessCodePattern(d, res) ==
    [disk    |-> [d EXCEPT !.code = res.code],
     outcome |-> res.outcome, written |-> res.written, threw |-> res.threw]

AfterUpdateDependencies(d, res) ==
    [disk    |-> [d EXCEPT !.pkg = res.pkg],
     outcome |-> res.outcome,
     written |-> IF res.outcome = "updated" THEN {PkgPath} ELSE {},
     threw   |-> res.threw]

\* What one call of applyTemplateConfig leaves: the project directory, what
\* the call logged, the files it wrote, and whether it threw to its caller
AfterCall(d, lk, cfg, sel, call) ==
    CASE call.op = "removeFiles" ->
            AfterRemoveFiles(d, RemoveFilesResult(d.tree, lk, call.pattern))
      [] call.op = "updateManifest" ->
            AfterUpdateManifest(d, UpdateManifestResult(d.tree, d.manifestTs,
                                                        d.manifestJson, call.keys))
      [] call.op = "processCodePattern" ->
            AfterProcessCodePattern(d, ProcessCodePatternResult(d.tree, d.code, call.cp))
      [] call.op = "updateDependencies" ->
            AfterUpdateDependencies(d, UpdateDependenciesResult(d.tree, d.pkg, cfg, sel))

\* The calls cs made one after the other on the project directory d
RECURSIVE AfterCalls(_, _, _, _, _)
AfterCalls(d, lk, cfg, sel, cs) ==
    IF cs = <<>> THEN d
    ELSE AfterCalls(AfterCall(d, lk, cfg, sel, Head(cs)).disk, lk, cfg, sel, Tail(cs))

\* applyTemplateConfig(projectDir, userSelections, templateConfig): the
\* project directory it leaves
ApplyTemplateConfigResult(d, lk, cfg, sel) ==
    AfterCalls(d, lk, cfg, sel, ApplyCalls(cfg, sel))

\* No call yet
NoCodeCall == Call("none", "", "", <<>>, <<>>, NoCodePattern)

NoCall == NoCodeCall @@ [outcome |-> "none", written |-> {}]

\* The target directory before the copy: confirmProceed has made sure that
\* it exists
EmptyTree == [p \in Paths |-> IF p = <<>> THEN "dir" ELSE "none"]

\* A directory that fs.remove has removed
NoDir == DiskOf([p \in Paths |-> "none"], NoPkg, NoManifestTs, NoManifestJson, NoCode)

\* init has cloned the template into tempDir and is about to load
\* template.config.json from it (step 5)
InitRun ==
    /\ pc = "cloned"
    /\ prompted = <<>>
    /\ calls = <<>>
    /\ callIdx = 1
    /\ runs = 0
    /\ last = NoCall
    /\ log = <<>>
    /\ tree = EmptyTree
    /\ pkg = NoPkg
    /\ manifestTs = NoManifestTs
    /\ manifestJson = NoManifestJson
    /\ code = NoCode
    /\ treeStart = tree
    /\ treeBefore = tree
    /\ pkgBefore = pkg
    /\ manifestBefore = manifestTs
    /\ codeBefore = code
    /\ ended = <<>>

\* The manifest.config.ts, the source files and the item fields that every
\* explored template has where they are not what is varied:
\*   export default { a: 1, k: 2 }      m.js: 'xky'      u.js: 'y'
KeyK == <<"k">>
PlainManifest ==
    <<"{", " ", "a", ":", " ", "1", ",", " ", "k", ":", " ", "2", " ", "}">>
PlainCode ==
    [f \in Range(CodeFiles) |-> IF f = MainJs THEN <<"x", "k", "y">> ELSE <<"y">>]
GlobJs == <<"*", ".js">>
PlainCodePattern == CodePattern(GlobJs, <<"k">>, "keep")

\* The item 'options' with its manifest key and its code pattern
Options(files, directories, dependencies) ==
    FullItem("options", files, directories, dependencies, TRUE, <<KeyK>>,
             <<PlainCodePattern>>)

\* A cloned template whose tree and files[] and directories[] lists vary
InitFiles ==
    /\ \E pf \in { <<>>, <<Pat.AB>>, <<Pat.AAll>>, <<Pat.AMidB>>, <<Pat.Root>>, <<Pat.Pkg>>,
                    <<Pat.A, Pat.AB>> },
          pd \in { <<>>, <<Pat.ADir>> },
          of \in { <<>>, <<Pat.AB>>, <<Pat.BAll>>, <<Pat.AAll>> } :
          templateConfig =
              Config(Item("popup", pf, pd, <<>>),
                     Options(of, <<>>, << Dep("pinia", "^2.0.0", FALSE) >>))
    /\ userSelections \in
          { s \in Selections : s = <<>> \/ s[1].ids # <<"options", "popup">> }
    /\ configFile = "valid"
    /\ locked \in { {}, {PathAB} }
    /\ \E t \in InitTrees :
          /\ \A p \in locked : t[p] # "none"
          /\ tempDir = DiskOf(t, Pkg(Map2("vue", "^1.0.0", "pinia", "^1.0.0"),
                                     Map1("vite", "^1.0.0")),
                              PlainManifest, NoManifestJson, PlainCode)
    /\ predefinedChoices = TRUE
    /\ InitRun

\* A cloned template whose package.json and dependencies[] lists vary
InitDeps ==
    /\ \E pd \in { <<>>,
                    << Dep("pinia", "", FALSE) >>,
                    << Dep("pinia", "^2.0.0", FALSE) >>,
                    << Dep("pinia", "^3.0.0", FALSE) >>,
                    << Dep("pinia", "", TRUE) >>,
                    << Dep("pinia", "^2.0.0", TRUE) >>,
                    << Dep("vue", "", TRUE) >> },
          od \in { <<>>,
                    << Dep("pinia", "", FALSE) >>,
                    << Dep("pinia", "^3.0.0", FALSE) >>,
                    << Dep("pinia", "", TRUE) >>,
                    << Dep("vue", "", FALSE) >>,
                    << Dep("vue", "", TRUE) >>,
                    << Dep("vite", "", TRUE) >> } :
          templateConfig =
              Config(Item("popup", <<Pat.AAll>>, <<>>, pd),
                     Options(<<>>, <<>>, od))
    /\ userSelections \in Selections
    /\ configFile = "valid"
    /\ locked = {}
    /\ \/ \E pk \in InitPkgs :
             tempDir = DiskOf(PlainTree, pk, PlainManifest, NoManifestJson, PlainCode)
       \/ tempDir = DiskOf([PlainTree EXCEPT ![PkgPath] = "none"], NoPkg,
                           PlainManifest, NoManifestJson, PlainCode)
    /\ predefinedChoices = TRUE
    /\ InitRun

\* Property keys of a manifest
KeyA == <<"a">>
KeyD == <<"d">>

\* Property values of a manifest one level deep: 1, "s", [1] and {x:1}
ShallowValues ==
    { <<"1">>,
      <<"\"", "s", "\"">>,
      <<"[", "1", "]">>,
      <<"{", "x", ":", "1", "}">> }

\* Values with a list or nested up to three deep: "s", [1], [1,2], [[1]],
\* [[[1]]], {x:1}, {x:1,y:2}, {x:{y:1}}, {x:{y:{z:1}}}, {x:[{y:1}]} and
\* [{x:{y:1}}]
NestedValues ==
    { <<"\"", "s", "\"">>,
      <<"[", "1", "]">>,
      <<"[", "1", ",", "2", "]">>,
      <<"[", "[", "1", "]", "]">>,
      <<"[", "[", "[", "1", "]", "]", "]">>,
      <<"{", "x", ":", "1", "}">>,
      <<"{", "x", ":", "1", ",", "y", ":", "2", "}">>,
      <<"{", "x", ":", "{", "y", ":", "1", "}", "}">>,
      <<"{", "x", ":", "{", "y", ":", "{", "z", ":", "1", "}", "}", "}">>,
      <<"{", "x", ":", "[", "{", "y", ":", "1", "}", "]", "}">>,
      <<"[", "{", "x", ":", "{", "y", ":", "1", "}", "}", "]">> }

\* key: value
Property(key, value) == key \o <<":", " ">> \o value

\* The properties with sep between them
RECURSIVE Joined(_, _)
Joined(props, sep) ==
    IF props = <<>> THEN <<>>
    ELSE IF Len(props) = 1 THEN Head(props)
    ELSE Head(props) \o sep \o Joined(Tail(props), sep)

\* The object literal of a manifest.config.ts: sep between two properties,
\* close between the last one and the closing brace
ManifestText(props, sep, close) == <<"{", " ">> \o Joined(props, sep) \o close \o <<"}">>

\* The manifests explored: property k alone, first, last and in the middle,
\* on one line or one property per line, with and without a trailing comma
ManifestTexts(kValues, otherValues) ==
    { ManifestText(props, sep, close) :
        props \in { <<Property(KeyK, v)>> : v \in kValues }
                  \cup { <<Property(KeyK, v), Property(KeyD, w)>> :
                            v \in kValues, w \in otherValues }
                  \cup { <<Property(KeyA, u), Property(KeyK, v)>> :
                            u \in otherValues, v \in kValues }
                  \cup { <<Property(KeyA, u), Property(KeyK, v), Property(KeyD, w)>> :
                            u \in otherValues, v \in kValues, w \in otherValues },
        sep \in { <<",", " ">>, <<",", "\n">> },
        close \in { <<" ">>, <<",", "\n">> } }

\* A cloned template whose manifest.config.ts and manifestKeys vary
InitManifestOf(texts) ==
    /\ \E keys \in { <<KeyK>>, <<KeyK, KeyD>>, <<KeyA, KeyK>> } :
          templateConfig =
              Config(Item("popup", <<>>, <<>>, <<>>),
                     FullItem("options", <<Pat.AB>>, <<>>, <<>>, TRUE, keys,
                              <<PlainCodePattern>>))
    /\ userSelections \in { <<>>, << [key |-> "pages", ids |-> <<"popup">>] >> }
    /\ configFile = "valid"
    /\ locked = {}
    /\ \E ts \in texts :
          tempDir = DiskOf(PlainTree, Pkg(Map1("vue", "^1.0.0"), Map1("vite", "^1.0.0")),
                           ts, NoManifestJson, PlainCode)
    /\ predefinedChoices = TRUE
    /\ InitRun

\* Manifests without a property k, in which 'k:' occurs all the same: at the
\* end of the name of property ak, and inside the value of property a, an
\* object or a string
NearMissTexts ==
    { ManifestText(props, <<",", " ">>, <<" ">>) :
        props \in { << Property(<<"a", "k">>, <<"1">>) >>,
                    << Property(<<"a", "k">>, <<"1">>), Property(KeyD, <<"2">>) >>,
                    << Property(KeyA, <<"{", "k", ":", " ", "1", "}">>), Property(KeyD, <<"2">>) >>,
                    << Property(KeyA, <<"\"", "k", ":", " ", "1", "\"">>),
                       Property(KeyD, <<"2">>) >> } }

\* Values one level deep, as in { action: {...}, options_page: "options.html" }
InitManifest == InitManifestOf(ManifestTexts(ShallowValues, { <<"1">>, <<"{", "x", ":", "1", "}">> }) \cup NearMissTexts)

\* Values nested up to three deep
InitNested == InitManifestOf(ManifestTexts(NestedValues, { <<"1">> }))

\* A cloned template whose source files and code patterns vary: m.js holds
\* 'xky', 'kkk', 'kkyy', 'y' or nothing, u.js 'y' or 'k' when it exists; the
\* pattern of 'options' is 'k', 'kk', 'ky', the empty string or '(', on '*.js'
\* or on 'm.js'
InitCode ==
    /\ \E pattern \in { <<"k">>, <<"k", "k">>, <<"k", "y">>, <<>>, <<"(">> },
          action \in { "keep", "remove" },
          file \in { GlobJs, MainJs[1] } :
          templateConfig =
              Config(FullItem("popup", <<>>, <<>>, <<>>, FALSE, <<>>,
                              << CodePattern(GlobJs, <<"y">>, "keep") >>),
                     FullItem("options", <<Pat.AB>>, <<>>, <<>>, TRUE, <<KeyK>>,
                              << CodePattern(file, pattern, action) >>))
    /\ userSelections \in
          { <<>> } \cup { << [key |-> "pages", ids |-> ids] >> :
                            ids \in { <<"popup">>, <<"options">>, <<"popup", "options">> } }
    /\ configFile = "valid"
    /\ locked = {}
    /\ \E main \in { <<"x", "k", "y">>, <<"k", "k", "k">>, <<"k", "k", "y", "y">>,
                      <<"y">>, <<>> },
          util \in { <<"y">>, <<"k">> },
          utilKind \in { "file", "none" } :
          tempDir = Normalized(
              DiskOf([PlainTree EXCEPT ![UtilJs] = utilKind],
                     Pkg(Map1("vue", "^1.0.0"), Map1("vite", "^1.0.0")),
                     PlainManifest, NoManifestJson,
                     [f \in Range(CodeFiles) |-> IF f = MainJs THEN main ELSE util]))
    /\ predefinedChoices = TRUE
    /\ InitRun

\* { templateType: 'chrome-extension', pages: { popup, options },
\*   features: { dark }, tags: [ { dependencies: [ { name: 'pinia' } ] } ] }
\* The member of the array is what indexing it with '0' gives.
LayeredConfig(popup, options, dark) ==
    Config(popup, options)
    \o << [key |-> "features", kind |-> "object", items |-> <<dark>>, value |-> ""],
          [key |-> "tags", kind |-> "array",
           items |-> << Item("0", <<>>, <<>>, << Dep("pinia", "", FALSE) >>) >>,
           value |-> ""] >>

\* What a selection holds for one layer: no key, or the key with a list
LayerSelections(key, lists) ==
    { <<>> } \cup { << [key |-> key, ids |-> ids] >> : ids \in lists }

\* Selections of the two layers, some with an id 'ghost' that layer 'pages'
\* does not define, some with a key that is no layer of the configuration:
\* one the document does not hold, its string and its array, the latter also
\* with the index of its member
PassSelections ==
    { pages \o features \o extra :
        pages \in LayerSelections("pages",
                      { <<>>, <<"popup">>, <<"options">>, <<"popup", "options">>,
                        <<"ghost">>, <<"ghost", "popup">>, <<"options", "ghost">> }),
        features \in LayerSelections("features", { <<>>, <<"dark">> }),
        extra \in { <<>> } \cup { << [key |-> key, ids |-> <<"popup">>] >> :
                                    key \in {"ghost", "templateType", "tags"} }
                           \cup { << [key |-> "tags", ids |-> <<"0">>] >> } }

\* What can go wrong during a pass: a/b cannot be removed; package.json is
\* not JSON; manifest.config.ts cannot be read while manifest.json can; the
\* pattern of 'options' does not compile
Failures == { {}, {"locked"}, {"package.json"}, {"manifest.config.ts"}, {"pattern"},
              {"locked", "package.json", "manifest.config.ts", "pattern"} }

\* The cloned template with the failures in it
FailingDisk(failing) ==
    DiskOf([p \in Paths |->
               IF p = ManifestTsPath /\ "manifest.config.ts" \in failing THEN "dir"
               ELSE IF p = ManifestJsonPath /\ "manifest.config.ts" \in failing THEN "file"
               ELSE IF p = PathB THEN "dir"
               ELSE PlainTree[p]],
            IF "package.json" \in failing
            THEN [json |-> FALSE, hasDeps |-> FALSE, dependencies |-> EmptyMap,
                  hasDev |-> FALSE, devDependencies |-> EmptyMap]
            ELSE Pkg(Map2("vue", "^1.0.0", "pinia", "^1.0.0"),
                     Map2("vite", "^1.0.0", "lodash", "^1.0.0")),
            IF "manifest.config.ts" \in failing THEN NoManifestTs ELSE PlainManifest,
            IF "manifest.config.ts" \in failing
            THEN [json |-> TRUE, map |-> Map2("a", "v", "k", "v")]
            ELSE NoManifestJson,
            PlainCode)

\* A cloned template with two layers, whose template.config.json may be
\* missing or malformed, whose selections vary and in which calls fail
InitPass ==
    /\ \E failing \in Failures :
          /\ templateConfig =
                LayeredConfig(
                    FullItem("popup", <<Pat.AB>>, <<>>, << Dep("pinia", "^2.0.0", FALSE) >>,
                             TRUE, <<KeyA>>, << CodePattern(GlobJs, <<"y">>, "keep") >>),
                    FullItem("options", <<Pat.A>>, <<Pat.ADir>>, << Dep("pinia", "", FALSE) >>,
                             TRUE, <<KeyK>>,
                             << CodePattern(GlobJs,
                                            IF "pattern" \in failing THEN <<"(">> ELSE <<"k">>,
                                            "keep") >>),
                    Item("dark", <<Pat.BAll>>, <<>>, << Dep("lodash", "", TRUE) >>))
          /\ locked = IF "locked" \in failing THEN {PathAB} ELSE {}
          /\ tempDir = FailingDisk(failing)
    /\ userSelections \in PassSelections
    /\ configFile \in {"valid", "absent", "invalid"}
    /\ predefinedChoices = TRUE
    /\ InitRun

\* The lists a checkbox prompt can return: the choices ticked, in their order
RECURSIVE SubLists(_)
SubLists(choices) ==
    IF choices = <<>> THEN { <<>> }
    ELSE SubLists(Tail(choices))
         \cup { <<Head(choices)>> \o rest : rest \in SubLists(Tail(choices)) }

\* What promptOptions can return: for each layer it asks about, the key with
\* the ids the user ticked
RECURSIVE PromptAnswers(_, _)
PromptAnswers(cfg, layers) ==
    IF layers = <<>> THEN { <<>> }
    ELSE { << [key |-> Head(layers), ids |-> ids] >> \o rest :
             ids \in SubLists([k \in 1..Len(LayerConfig(cfg, Head(layers))) |->
                                  LayerConfig(cfg, Head(layers))[k].id]),
             rest \in PromptAnswers(cfg, Tail(layers)) }

\* { templateType: 'chrome-extension', templateAuthor: 'n' or { name: 'n' },
\*   version: '1' or { major: 1 }, pages: { popup, options }, tags: [] }
MetaConfig(author, version, popup, options) ==
    << [key |-> "templateType", kind |-> "string", items |-> <<>>,
        value |-> "chrome-extension"],
       [key |-> "templateAuthor", kind |-> author,
        items |-> IF author = "object" THEN << Item("name", <<>>, <<>>, <<>>) >> ELSE <<>>,
        value |-> IF author = "object" THEN "" ELSE "n"],
       [key |-> "version", kind |-> version,
        items |-> IF version = "object" THEN << Item("major", <<>>, <<>>, <<>>) >> ELSE <<>>,
        value |-> IF version = "object" THEN "" ELSE "1"],
       [key |-> "pages", kind |-> "object", items |-> <<popup, options>>, value |-> ""],
       [key |-> "tags", kind |-> "array", items |-> <<>>, value |-> ""] >>

\* A cloned template whose metadata keys hold a string or an object, and an
\* init that asks the user or is handed the selections.  The dependencies of
\* 'popup' may end with a null entry, and package.json holds its two maps,
\* lacks both keys, or is not JSON.
InitLayers ==
    /\ \E author \in {"string", "object"}, version \in {"string", "object"},
          malformed \in BOOLEAN :
          templateConfig =
              MetaConfig(author, version,
                         Item("popup", <<Pat.AB>>, <<>>,
                              << Dep("pinia", "^2.0.0", FALSE) >>
                              \o IF malformed
                                 THEN << [name |-> "", version |-> "", dev |-> FALSE,
                                          null |-> TRUE] >>
                                 ELSE <<>>),
                         Options(<<Pat.BAll>>, <<>>, <<>>))
    /\ predefinedChoices \in BOOLEAN
    /\ userSelections \in
          IF predefinedChoices THEN Selections
          ELSE PromptAnswers(templateConfig, PromptLayers(templateConfig))
    /\ configFile = "valid"
    /\ locked = {}
    /\ \E pk \in { Pkg(Map2("vue", "^1.0.0", "pinia", "^1.0.0"), Map1("vite", "^1.0.0")),
                    [NoPkg EXCEPT !.json = TRUE], NoPkg } :
          tempDir = DiskOf([PlainTree EXCEPT ![PathB] = "dir"], pk,
                           PlainManifest, NoManifestJson, PlainCode)
    /\ InitRun

\* A cloned template that holds a manifest.json, whose keys hold truthy and
\* falsy values ('v' and '') or which is not JSON, next to a manifest.config.ts
\* that is a file, a directory (reading it throws) or not there.  The template
\* is a 'chrome-extension' or a 'generic' one; its item 'options' has
\* manifestKeys or not, and lists the file 'a/b' or 'manifest.json'.
InitJson ==
    /\ \E keys \in { <<KeyK>>, <<KeyK, KeyD>> },
          type \in {"chrome-extension", "generic"},
          hasKeys \in BOOLEAN,
          file \in {Pat.AB, ManifestJsonPath[1]} :
          /\ hasKeys \/ keys = <<KeyK>>
          /\ templateConfig =
              [Config(Item("popup", <<>>, <<>>, <<>>),
                      FullItem("options", <<file>>, <<>>, <<>>, hasKeys,
                               IF hasKeys THEN keys ELSE <<>>, <<PlainCodePattern>>))
               EXCEPT ![1].value = type]
    /\ userSelections \in { <<>>, << [key |-> "pages", ids |-> <<"popup">>] >> }
    /\ predefinedChoices = TRUE
    /\ configFile = "valid"
    /\ locked = {}
    /\ \E tsKind \in {"none", "file", "dir"},
          js \in { [json |-> TRUE, map |-> m] :
                     m \in UNION { [dom -> {"v", ""}] :
                                     dom \in { {"k"} \cup x : x \in SUBSET {"a", "d"} } } }
                 \cup { [json |-> FALSE, map |-> EmptyMap] } :
          tempDir = DiskOf([PlainTree EXCEPT ![ManifestTsPath] = tsKind,
                                             ![ManifestJsonPath] = "file"],
                           Pkg(Map1("vue", "^1.0.0"), Map1("vite", "^1.0.0")),
                           IF tsKind = "file" THEN PlainManifest ELSE NoManifestTs,
                           js, PlainCode)
    /\ InitRun

\* LoadTemplateConfigResult with a slip: the catch logs the error and does not
\* throw it again
LoadSwallowsError(cf) == "loaded"

\* loadTemplateConfig(tempDir): the parsed document, or the error it logs
\* and throws again when the file is absent or is not JSON
LoadTemplateConfigResult(cf) == IF cf = "valid" THEN "loaded" ELSE "threw"

\* Step 5 of init.  An error thrown here reaches the catch of init, which
\* reports it and calls process.exit(1).
LoadTemplateConfig ==
    /\ pc = "cloned"
    /\ pc' = IF LoadTemplateConfigResult(configFile) = "loaded" THEN "loaded" ELSE "exited"
    /\ UNCHANGED <<templateConfig, userSelections, locked, configFile, tempDir, tree,
                   pkg, manifestTs, manifestJson, code, predefinedChoices, prompted,
                   calls, callIdx, runs, last, log, treeStart, treeBefore, pkgBefore,
                   manifestBefore, codeBefore, ended>>

\* Step 6 of init: predefinedChoices || await promptOptions(templateConfig).
\* The answers of the user are userSelections.
PromptOptions ==
    /\ pc = "loaded"
    /\ pc' = "prompted"
    /\ prompted' = IF predefinedChoices THEN <<>> ELSE PromptLayers(templateConfig)
    /\ UNCHANGED <<templateConfig, userSelections, locked, configFile, tempDir, tree,
                   pkg, manifestTs, manifestJson, code, predefinedChoices, calls,
                   callIdx, runs, last, log, treeStart, treeBefore, pkgBefore,
                   manifestBefore, codeBefore, ended>>

\* Steps 7 and 8 of init: copyFromTempToTarget(tempDir, absoluteTargetDir)
\* into the empty target directory
CopyFromTempToTarget ==
    /\ pc = "prompted"
    /\ pc' = "idle"
    /\ tree' = tempDir.tree
    /\ pkg' = tempDir.pkg
    /\ manifestTs' = tempDir.manifestTs
    /\ manifestJson' = tempDir.manifestJson
    /\ code' = tempDir.code
    /\ ended' = <<tempDir.tree>>
    /\ UNCHANGED <<templateConfig, userSelections, locked, configFile, tempDir,
                   predefinedChoices, prompted, calls, callIdx, runs, last, log,
                   treeStart, treeBefore, pkgBefore, manifestBefore, codeBefore>>

Calls == ApplyCalls(templateConfig, userSelections)

\* applyTemplateConfig(projectDir, userSelections, templateConfig) is called:
\* step 9 of init, and once more on the directory it has left
Start ==
    /\ pc \in {"idle", "done"}
    /\ runs < MaxRuns
    /\ pc' = "running"
    /\ calls' = Calls
    /\ callIdx' = 1
    /\ runs' = runs + 1
    /\ treeStart' = tree
    /\ treeBefore' = tree
    /\ pkgBefore' = pkg
    /\ manifestBefore' = manifestTs
    /\ codeBefore' = code
    /\ last' = NoCall
    /\ log' = <<>>
    /\ UNCHANGED <<templateConfig, userSelections, locked, configFile, tempDir, tree,
                   pkg, manifestTs, manifestJson, code, predefinedChoices, prompted,
                   ended>>

\* The next call of the pass is made and awaited.  A call that throws ends
\* applyTemplateConfig and, through the catch of init, the process; the
\* return of updateDependencies ends the pass (processChromeExtensionConfig
\* only logs).
Settled(call, res) ==
    /\ tree' = res.disk.tree
    /\ pkg' = res.disk.pkg
    /\ manifestTs' = res.disk.manifestTs
    /\ manifestJson' = res.disk.manifestJson
    /\ code' = res.disk.code
    /\ last' = call @@ [outcome |-> res.outcome, written |-> res.written]
    /\ log' = Append(log, last')
    /\ pc' = IF res.threw THEN "exited"
             ELSE IF call.op = "updateDependencies" THEN "done" ELSE "running"
    /\ ended' = IF ~res.threw /\ call.op = "updateDependencies"
                THEN Append(ended, res.disk.tree) ELSE ended

Await(call) ==
    /\ Settled(call, AfterCall(DiskOf(tree, pkg, manifestTs, manifestJson, code), locked,
                               templateConfig, userSelections, call))
    /\ treeBefore' = tree
    /\ pkgBefore' = pkg
    /\ manifestBefore' = manifestTs
    /\ codeBefore' = code
    /\ callIdx' = callIdx + 1
    /\ UNCHANGED <<templateConfig, userSelections, locked, configFile, tempDir,
                   predefinedChoices, prompted, calls, runs, treeStart>>

\* One await removeFiles(projectDir, pattern) of the removal loop
RemoveFiles ==
    /\ pc = "running"
    /\ calls[callIdx].op = "removeFiles"
    /\ Await(calls[callIdx])

\* await updateManifest(projectDir, itemConfig.manifestKeys, false)
UpdateManifest ==
    /\ pc = "running"
    /\ calls[callIdx].op = "updateManifest"
    /\ Await(calls[callIdx])

\* One await processCodePattern(projectDir, pattern)
ProcessCodePattern ==
    /\ pc = "running"
    /\ calls[callIdx].op = "processCodePattern"
    /\ Await(calls[callIdx])

\* await updateDependencies(projectDir, templateConfig, userSelections)
UpdateDependencies ==
    /\ pc = "running"
    /\ calls[callIdx].op = "updateDependencies"
    /\ Await(calls[callIdx])

\* Steps 10 and 11 of init: applyTemplateConfig has returned, and the finally
\* block removes the temporary directory
Cleanup ==
    /\ pc = "done"
    /\ pc' = "finished"
    /\ tempDir' = NoDir
    /\ UNCHANGED <<templateConfig, userSelections, locked, configFile, tree, pkg,
                   manifestTs, manifestJson, code, predefinedChoices, prompted, calls,
                   callIdx, runs, last, log, treeStart, treeBefore, pkgBefore,
                   manifestBefore, codeBefore, ended>>

Next ==
    \/ LoadTemplateConfig
    \/ PromptOptions
    \/ CopyFromTempToTarget
    \/ Start
    \/ RemoveFiles
    \/ UpdateManifest
    \/ ProcessCodePattern
    \/ UpdateDependencies
    \/ Cleanup

\* Every input at once
Init ==
    \/ InitFiles
    \/ InitDeps
    \/ InitManifest
    \/ InitNested
    \/ InitCode
    \/ InitPass
    \/ InitLayers
    \/ InitJson

Spec      == Init /\ [][Next]_vars
SpecFiles == InitFiles /\ [][Next]_vars
SpecDeps  == InitDeps /\ [][Next]_vars

SpecManifest == InitManifest /\ [][Next]_vars
SpecNested   == InitNested /\ [][Next]_vars
SpecCode     == InitCode /\ [][Next]_vars
SpecPass     == InitPass /\ [][Next]_vars
SpecLayers   == InitLayers /\ [][Next]_vars
SpecJson     == InitJson /\ [][Next]_vars

(***************************************************************************)
(* The vocabulary of the properties                                        *)
(***************************************************************************)

\* The reserved metadata keys of a configuration document
ReservedKeys ==
    {"templateName", "templateType", "templateDescription", "templateAuthor", "version"}

\* The layers of a configuration: the top-level entries whose value is a
\* plain object and whose key is not reserved
Layers(cfg) ==
    { cfg[k] : k \in { j \in 1..Len(cfg) :
                         cfg[j].kind = "object" /\ cfg[j].key \notin ReservedKeys } }

IdsSelected(sel, layerKey) ==
    UNION { Range(sel[k].ids) : k \in { j \in 1..Len(sel) : sel[j].key = layerKey } }

\* The items of a layer the user did not keep, and those the user kept
ItemsUnselected(layer, sel) ==
    { it \in Range(layer.items) : it.id \notin IdsSelected(sel, layer.key) }
ItemsSelected(layer, sel) ==
    { it \in Range(layer.items) : it.id \in IdsSelected(sel, layer.key) }

\* The files[] and directories[] entries of an item
EntriesOf(item) == Range(item.files) \cup Range(item.directories)

\* The path an entry stands for: the pattern with '/**/*' and '/**/' stripped,
\* joined to the project directory
Stripped(pattern) ==
    LET at(str, sub)  == { i \in 1..(Len(str) - Len(sub) + 1) :
                             SubSeq(str, i, i + Len(sub) - 1) = sub }
        cut(str, sub) ==
            IF at(str, sub) = {} THEN str
            ELSE LET i == CHOOSE i \in at(str, sub) : \A j \in at(str, sub) : i <= j
                 IN  SubSeq(str, 1, i - 1) \o SubSeq(str, i + Len(sub), Len(str))
    IN  Segments(cut(cut(pattern, SuffixAll), SuffixDir))

UnselectedEntries ==
    UNION { EntriesOf(it) :
              it \in UNION { ItemsUnselected(l, userSelections) : l \in Layers(templateConfig) } }

SelectedEntries ==
    UNION { EntriesOf(it) :
              it \in UNION { ItemsSelected(l, userSelections) : l \in Layers(templateConfig) } }

\* The entries of the items the removal loop visits: the unselected items of
\* every top-level key that holds a plain object
LoopEntries ==
    UNION { EntriesOf(it) :
              it \in UNION { { x \in Range(templateConfig[k].items) :
                                 x.id \notin IdsSelected(userSelections, templateConfig[k].key) }
                             : k \in { j \in 1..Len(templateConfig) :
                                         templateConfig[j].kind = "object" } } }

Exists(t, p) == t[p] # "none"

\* Something at or below p cannot be removed
Stuck(t, p) == \E q \in locked : IsPrefix(p, q) /\ Exists(t, q)

C2_SelectedPathsKept ==
    pc = "done" =>
        \A pat \in SelectedEntries :
            Exists(treeStart, Stripped(pat)) => Exists(tree, Stripped(pat))

(***************************************************************************)
(* C2 as amended: when applyTemplateConfig has completed, every path named *)
(* by an entry of a selected item that existed before the pass still       *)
(* exists, as the same kind of entry, unless an entry of an unselected     *)
(* item (of any top-level key holding an object) resolves to that path or  *)
(* to a directory above it.  Scenario A: with popup.files = ['a/**/*'],    *)
(* options.files = ['b/**/*'] and the selection {pages: ['popup']}, a      *)
(* exists after the pass and b does not.                                   *)
(***************************************************************************)
C2_SelectedPathsKeptUnlessShared ==
    pc = "done" =>
        /\ \A pat \in SelectedEntries :
              LET p == Stripped(pat)
              IN  (/\ Exists(treeStart, p)
                   /\ \A un \in LoopEntries : ~IsPrefix(Stripped(un), p))
                  => tree[p] = treeStart[p]
        /\ (/\ templateConfig[2].items[1].files = <<Pat.AAll>>
            /\ templateConfig[2].items[1].directories = <<>>
            /\ templateConfig[2].items[2].files = <<Pat.BAll>>
            /\ userSelections = << [key |-> "pages", ids |-> <<"popup">>] >>
            /\ treeStart[PathA] = "dir"
            /\ treeStart[PathB] = "dir")
           => (tree[PathA] = "dir" /\ tree[PathB] = "none")

\* C2's case: Scenario A has run, and the kept directory still holds its file
C2_Witness ==
    /\ pc = "done"
    /\ templateConfig[2].items[1].files = <<Pat.AAll>>
    /\ templateConfig[2].items[1].directories = <<>>
    /\ templateConfig[2].items[2].files = <<Pat.BAll>>
    /\ userSelections = << [key |-> "pages", ids |-> <<"popup">>] >>
    /\ treeStart[PathA] = "dir" /\ treeStart[PathAB] = "file" /\ treeStart[PathB] = "dir"
    /\ tree[PathA] = "dir" /\ tree[PathAB] = "file" /\ tree[PathB] = "none"

(***************************************************************************)
(* C9: a removeFiles call whose resolved path does not exist raises no     *)
(* error (it logs 'Item not found') and leaves every entry of the project  *)
(* tree, and the content of package.json, as they were.                    *)
(***************************************************************************)
C9_AbsentPathIsNoOp ==
    (last.op = "removeFiles" /\ ~Exists(treeBefore, Stripped(last.pattern)))
        => (tree = treeBefore /\ pkg = pkgBefore /\ last.outcome = "not-found")

\* C9's case: removeFiles has been called for a path that is not there while
\* the directory above it is
C9_Witness ==
    /\ last.op = "removeFiles"
    /\ last.pattern = Pat.AB
    /\ treeBefore[PathA] = "dir"
    /\ ~Exists(treeBefore, PathAB)
    /\ last.outcome = "not-found"

(***************************************************************************)
(* C10: a second pass with the same configuration and the same selection   *)
(* on the same target ends with the tree the first pass ended with.        *)
(***************************************************************************)
C10_RemovalIdempotent ==
    \A k \in 3..Len(ended) : ended[k] = ended[2]

\* C10's case: two passes have completed and the first one removed something
C10_Witness ==
    /\ Len(ended) >= 3
    /\ ended[2] # ended[1]
    /\ \E p \in Paths : Exists(ended[2], p) /\ p # <<>> /\ p # PkgPath

(***************************************************************************)
(* The vocabulary of the dependency properties                             *)
(***************************************************************************)

AllItems        == UNION { Range(l.items) : l \in Layers(templateConfig) }
SelectedItems   == UNION { ItemsSelected(l, userSelections) : l \in Layers(templateConfig) }

\* The dependency entries a set of items declares, and the names among them
\* declared for one map (dev TRUE: devDependencies, dev FALSE: dependencies)
EntriesDeclared(items)     == UNION { Range(it.dependencies) : it \in items }
NamesDeclared(items)       == { d.name : d \in EntriesDeclared(items) }
NamesDeclaredFor(items, dev) ==
    { d.name : d \in { e \in EntriesDeclared(items) : e.dev = dev } }

MapOf(pk, dev) == IF dev THEN pk.devDependencies ELSE pk.dependencies
CoreFor(dev)   == IF dev THEN CoreDevDeps ELSE CoreDeps
CoreNames      == CoreDeps \cup CoreDevDeps
NamesIn(pk)    == DOMAIN pk.dependencies \cup DOMAIN pk.devDependencies

\* updateDependencies has just returned / has just rewritten package.json
AfterUpdate == last.op = "updateDependencies"
Rewritten   == last.op = "updateDependencies" /\ last.outcome = "updated"

\* Every version a map holds was there before the pass or is carried by an
\* entry of a selected item for that name and map
OnlySelectedVersionsWritten ==
    \A dev \in BOOLEAN :
        \A n \in DOMAIN MapOf(pkg, dev) :
            \/ n \in DOMAIN MapOf(pkgBefore, dev)
                  /\ MapOf(pkg, dev)[n] = MapOf(pkgBefore, dev)[n]
            \/ \E d \in EntriesDeclared(SelectedItems) :
                  d.name = n /\ d.dev = dev /\ d.version = MapOf(pkg, dev)[n]

(***************************************************************************)
(* C3 as stated: after updateDependencies the names in dependencies and    *)
(* devDependencies together are exactly the core names and the names       *)
(* declared by the selected items, intersected with the names package.json *)
(* held before the pass.                                                   *)
(***************************************************************************)
C3_NamesAreRequiredAndOld ==
    Rewritten =>
        NamesIn(pkg) = (CoreNames \cup NamesDeclared(SelectedItems)) \cap NamesIn(pkgBefore)

(***************************************************************************)
(* C3 as amended: after updateDependencies each map is settled by its own  *)
(* declarations (dependencies by the entries with dev false or omitted and *)
(* the core runtime names, devDependencies by the entries with dev true    *)
(* and the core dev names): its names are those it held before the pass,   *)
(* minus the names declared for it by some item but neither core for it    *)
(* nor declared for it by a selected item (an entry whose version is the   *)
(* empty string is left in place), plus the names for which a selected     *)
(* item declares an explicit version for it.                               *)
(***************************************************************************)
C3_NamesPerMap ==
    Rewritten =>
        \A dev \in BOOLEAN :
            LET before   == MapOf(pkgBefore, dev)
                dropped  == { n \in DOMAIN before :
                                /\ n \in NamesDeclaredFor(AllItems, dev)
                                /\ n \notin CoreFor(dev)
                                /\ n \notin NamesDeclaredFor(SelectedItems, dev)
                                /\ before[n] # "" }
                written  == { d.name : d \in { e \in EntriesDeclared(SelectedItems) :
                                                 e.dev = dev /\ e.version # "" } }
            IN  DOMAIN MapOf(pkg, dev) = ((DOMAIN before) \ dropped) \cup written

\* C3's case: one pass has dropped a name from a map, written a new name to
\* it, and kept a name no item declares
C3_Witness ==
    /\ Rewritten
    /\ "lodash" \in DOMAIN pkg.dependencies
    /\ "pinia" \in DOMAIN pkgBefore.devDependencies /\ "pinia" \notin DOMAIN pkg.devDependencies
    /\ "pinia" \notin DOMAIN pkgBefore.dependencies /\ "pinia" \in DOMAIN pkg.dependencies

(***************************************************************************)
(* C4: after updateDependencies, a name that some item declares, that no   *)
(* selected item declares and that is not a core name is absent from       *)
(* dependencies if declared with dev false or omitted, and from            *)
(* devDependencies if declared with dev true.                              *)
(***************************************************************************)
C4_UnselectedDependenciesAbsent ==
    Rewritten =>
        \A n \in NamesDeclared(AllItems) \ (NamesDeclared(SelectedItems) \cup CoreNames) :
            \A dev \in BOOLEAN :
                n \in NamesDeclaredFor(AllItems, dev) => n \notin DOMAIN MapOf(pkg, dev)

(***************************************************************************)
(* C5: updateDependencies neither deletes nor changes an entry of          *)
(* dependencies or devDependencies whose name no item of any layer         *)
(* declares.                                                               *)
(***************************************************************************)
C5_UndeclaredEntriesUntouched ==
    AfterUpdate =>
        \A dev \in BOOLEAN :
            \A n \in (DOMAIN MapOf(pkgBefore, dev)) \ NamesDeclared(AllItems) :
                /\ n \in DOMAIN MapOf(pkg, dev)
                /\ MapOf(pkg, dev)[n] = MapOf(pkgBefore, dev)[n]

\* C5's case: a pass that deleted a declared name has kept the hand-added
\* one beside it
C5_Witness ==
    /\ Rewritten
    /\ "lodash" \notin NamesDeclared(AllItems)
    /\ "lodash" \in DOMAIN pkgBefore.dependencies
    /\ "pinia" \in DOMAIN pkgBefore.dependencies
    /\ "pinia" \notin DOMAIN pkg.dependencies
    /\ "lodash" \in DOMAIN pkg.dependencies

C7_ExplicitVersionsWritten ==
    Rewritten =>
        /\ \A d \in EntriesDeclared(SelectedItems) :
              d.version # "" =>
                  /\ d.name \in DOMAIN MapOf(pkg, d.dev)
                  /\ MapOf(pkg, d.dev)[d.name] = d.version
        /\ OnlySelectedVersionsWritten

(***************************************************************************)
(* C7 as amended: after updateDependencies, for every name and map for     *)
(* which some selected item's entry carries a version, the map holds the   *)
(* version of the last such entry in processing order (the keys of         *)
(* userSelections in order, the ids of each list in order, the item's      *)
(* dependencies in order), whatever was there before: exactly v when no    *)
(* later selected entry for the same name and map carries another version. *)
(* No version is written that only an unselected item's entry carries.     *)
(***************************************************************************)
C7_LastExplicitVersionWritten ==
    Rewritten =>
        /\ LET order == SelectedDependencies(templateConfig, userSelections)
               hits(n, dev) == { k \in 1..Len(order) :
                                   /\ order[k].name = n
                                   /\ order[k].dev = dev
                                   /\ order[k].version # "" }
           IN  \A dev \in BOOLEAN :
                 \A n \in NamesDeclared(AllItems) :
                    hits(n, dev) # {} =>
                       LET k == CHOOSE k \in hits(n, dev) : \A j \in hits(n, dev) : j <= k
                       IN  /\ n \in DOMAIN MapOf(pkg, dev)
                           /\ MapOf(pkg, dev)[n] = order[k].version
        /\ OnlySelectedVersionsWritten

\* C7's case: a selected item's version has replaced the one package.json
\* held, while the other item, unselected, carries a different version
C7_Witness ==
    /\ Rewritten
    /\ \E d \in EntriesDeclared(SelectedItems) :
          /\ d.version # ""
          /\ d.name \in DOMAIN MapOf(pkgBefore, d.dev)
          /\ MapOf(pkgBefore, d.dev)[d.name] # d.version
          /\ MapOf(pkg, d.dev)[d.name] = d.version
          /\ \E e \in EntriesDeclared(AllItems \ SelectedItems) :
                e.name = d.name /\ e.dev = d.dev /\ e.version \notin {"", d.version}

(***************************************************************************)
(* C8: a core name that dependencies or devDependencies held before the    *)
(* pass is still in that map after updateDependencies.                     *)
(***************************************************************************)
C8_CoreNamesRetained ==
    AfterUpdate =>
        \A dev \in BOOLEAN :
            \A n \in CoreNames \cap DOMAIN MapOf(pkgBefore, dev) :
                n \in DOMAIN MapOf(pkg, dev)

(***************************************************************************)
(* The manifest patch                                                      *)
(***************************************************************************)

\* The last call was a patch of manifest.config.ts that wrote the file
ManifestPatched ==
    last.op = "updateManifest" /\ ManifestTsPath \in last.written

\* The character before position i that is not white space, "" when none
PrevChar(s, i) ==
    LET before == { j \in 1..(i - 1) : ~IsSpace(s[j]) }
    IN  IF before = {} THEN "" ELSE s[Most(before)]

\* The character after position i that is not white space, "" when none
NextChar(s, i) ==
    IF SkipSpace(s, i + 1) > Len(s) THEN "" ELSE s[SkipSpace(s, i + 1)]

\* A comma with no property before it or none after it
DanglingComma(s) ==
    \E i \in 1..Len(s) :
        /\ s[i] = ","
        /\ \/ PrevChar(s, i) \in {"", "{", "[", ","}
           \/ NextChar(s, i) \in {"", ",", "}", "]"}

\* C11: a patch of manifest.config.ts that removed a key leaves no dangling
\* comma in the file, wherever the key stood in the object literal.
C11_NoDanglingComma ==
    ManifestPatched => ~DanglingComma(manifestTs)


\* How many times the character occurs
Count(s, c) == Cardinality({ i \in 1..Len(s) : s[i] = c })

\* As many opening as closing braces, and brackets
Balanced(s) ==
    /\ Count(s, "{") = Count(s, "}")
    /\ Count(s, "[") = Count(s, "]")

\* ',,', ', }' or ', ]', with any white space after the comma
CommaArtifact(s) ==
    \E i \in 1..Len(s) : s[i] = "," /\ NextChar(s, i) \in {",", "}", "]"}

\* C12: a patch of a balanced manifest.config.ts leaves it balanced and
\* without ',,', ', }' or ', ]', whatever the values of its properties are:
\* strings, arrays or objects, nested to any depth.
C12_ManifestBalanced ==
    (ManifestPatched /\ Balanced(manifestBefore)) =>
        (Balanced(manifestTs) /\ ~CommaArtifact(manifestTs))

(***************************************************************************)
(* Code patterns                                                           *)
(***************************************************************************)

\* The last call was processCodePattern for a pattern whose action is 'keep'
\* and whose expression compiles
KeepApplied ==
    /\ last.op = "processCodePattern"
    /\ last.cp.action = "keep"
    /\ RegexCompiles(last.cp.pattern)

\* The files the glob of the last call matched
GlobbedFiles ==
    { f \in Range(CodeFiles) : treeBefore[f] = "file" /\ GlobMatches(last.cp.file, f) }

\* The places where the pattern occurs in s
Occurrences(s, sub) == { i \in 1..(Len(s) + 1) : OccursAt(s, i, sub) }

\* s without the characters of the occurrences that start in M
Without(s, sub, M) ==
    SelectSeq([i \in 1..Len(s) |-> IF \E m \in M : m <= i /\ i < m + Len(sub)
                                   THEN "" ELSE s[i]],
              LAMBDA c : c # "")

\* r is s with every match deleted: the occurrences deleted do not overlap,
\* and any other occurrence overlaps a deleted one that starts before it
EveryMatchDeleted(s, sub, r) ==
    \E M \in SUBSET Occurrences(s, sub) :
        /\ \A m, n \in M : m < n => m + Len(sub) <= n
        /\ \A o \in Occurrences(s, sub) \ M :
              \E m \in M : m < o /\ o < m + Len(sub)
        /\ r = Without(s, sub, M)

\* C13: a code pattern with action 'keep' of an unselected item deletes every
\* match from every file its glob matches and rewrites the file; a globbed
\* file without a match is not written and keeps its content; no call is
\* made for a code pattern of a selected item.
C13_KeepPatternPrunes ==
    /\ KeepApplied =>
          \A f \in GlobbedFiles :
              IF Occurrences(codeBefore[f], last.cp.pattern) # {}
              THEN /\ f \in last.written
                   /\ EveryMatchDeleted(codeBefore[f], last.cp.pattern, code[f])
              ELSE /\ f \notin last.written
                   /\ code[f] = codeBefore[f]
    /\ \A k \in 1..Len(log) :
          log[k].op = "processCodePattern" =>
              log[k].item \notin IdsSelected(userSelections, log[k].layer)

\* A pattern was deleted twice from one file and not at all from another file
\* of the glob, while the pattern of the selected item was left alone
C13_Witness ==
    /\ KeepApplied
    /\ last.cp.file = GlobJs
    /\ Cardinality(GlobbedFiles) = 2
    /\ \E f \in GlobbedFiles :
          /\ Cardinality(Occurrences(codeBefore[f], last.cp.pattern)) >= 2
          /\ code[f] # codeBefore[f]
    /\ \E f \in GlobbedFiles : Occurrences(codeBefore[f], last.cp.pattern) = {}
    /\ IdsSelected(userSelections, "pages") = {"popup"}

(***************************************************************************)
(* Failures                                                                *)
(***************************************************************************)

\* What the target directory holds
Disk == DiskOf(tree, pkg, manifestTs, manifestJson, code)

\* The target directory as confirmProceed left it
Untouched == Disk = DiskOf(EmptyTree, NoPkg, NoManifestTs, NoManifestJson, NoCode)

\* C14: when template.config.json is absent or is not JSON, loading it ends
\* the run with exit code 1; nothing is ever copied into the target
\* directory and no removal, manifest patch, code pruning or dependency
\* rewrite is started.
C14_LoadFailureIsFatal ==
    configFile # "valid" =>
        /\ pc \in {"cloned", "exited"}
        /\ Untouched
        /\ runs = 0
        /\ log = <<>>
        /\ ended = <<>>

\* The run has ended on a configuration that did not load, in a template
\* that holds files to copy
C14_Witness ==
    /\ configFile \in {"absent", "invalid"}
    /\ pc = "exited"
    /\ tempDir.tree # EmptyTree
    /\ userSelections # <<>>

\* The calls made so far, without what they reported
CallsMade == [k \in 1..Len(log) |-> [x \in DOMAIN NoCodeCall |-> log[k][x]]]

\* The calls of the pass that reported an error
Warned(op) == { k \in 1..Len(log) : log[k].op = op /\ log[k].outcome = "error" }

\* C15: an error thrown inside removeFiles, updateManifest,
\* processCodePattern or updateDependencies is logged as a warning and goes
\* no further: the run does not exit, and the pass ends normally after every
\* call for every entry, item, layer and stage has been made.
C15_FailuresAreWarnings ==
    /\ configFile = "valid" => pc # "exited"
    /\ pc = "done" => CallsMade = ApplyCalls(templateConfig, userSelections)

\* A pass has ended in which each of the four functions reported an error,
\* removeFiles for three patterns, and manifest.json was patched after
\* manifest.config.ts could not be read
C15_Witness ==
    /\ pc = "done"
    /\ Cardinality(Warned("removeFiles")) >= 2
    /\ Warned("updateManifest") # {}
    /\ Warned("processCodePattern") # {}
    /\ Warned("updateDependencies") # {}
    /\ \E k \in Warned("removeFiles") : \E j \in (k + 1)..Len(log) :
          log[j].op = "removeFiles" /\ log[j].outcome = "removed"
    /\ \E k \in Warned("updateManifest") : ManifestJsonPath \in log[k].written

(***************************************************************************)
(* Selections                                                              *)
(***************************************************************************)

\* The ids the layer of the key defines; none when the key is no layer
IdsDefined(cfg, layerKey) ==
    UNION { { it.id : it \in Range(layer.items) } :
              layer \in { l \in Layers(cfg) : l.key = layerKey } }

\* The selections without the keys that are no layer of the configuration
\* and without the ids their layer does not define
Known(cfg, sel) ==
    LET known(s) == [key |-> s.key,
                     ids |-> SelectSeq(s.ids, LAMBDA id : id \in IdsDefined(cfg, s.key))]
    IN  [k \in 1..Len(SelectSeq(sel, LAMBDA s : IdsDefined(cfg, s.key) # {})) |->
            known(SelectSeq(sel, LAMBDA s : IdsDefined(cfg, s.key) # {})[k])]

\* The layers the selections do not name
LayersOmitted(cfg, sel) ==
    { l.key : l \in Layers(cfg) } \ { sel[k].key : k \in 1..Len(sel) }

\* The selections with the empty list for each layer they do not name
RECURSIVE WithEmptyLists(_, _)
WithEmptyLists(sel, keys) ==
    IF keys = {} THEN sel
    ELSE LET key == CHOOSE x \in keys : TRUE
         IN  WithEmptyLists(Append(sel, [key |-> key, ids |-> <<>>]), keys \ {key})

\* The first pass of the run has ended
FirstPassDone == pc = "done" /\ runs = 1

\* C16: with ids a layer does not define, or keys that are no layer of the
\* configuration, in the selections, the pass raises no error and leaves the
\* tree, the manifest and package.json that the pass with the selections
\* without them leaves.
C16_UnknownIdsInert ==
    /\ configFile = "valid" => pc # "exited"
    /\ FirstPassDone =>
          Disk = ApplyTemplateConfigResult(tempDir, locked, templateConfig,
                                           Known(templateConfig, userSelections))

\* C17: selections that omit the key of a layer leave the tree, the manifest
\* and package.json that the same selections with the empty list for the
\* layer leave.
C17_OmittedLayerIsEmptyList ==
    FirstPassDone =>
        Disk = ApplyTemplateConfigResult(
                   tempDir, locked, templateConfig,
                   WithEmptyLists(userSelections,
                                  LayersOmitted(templateConfig, userSelections)))

\* A pass has ended on selections that name layer 'features' and not layer
\* 'pages', whose items were removed and whose dependencies were pruned
C17_Witness ==
    /\ FirstPassDone
    /\ LayersOmitted(templateConfig, userSelections) = {"pages"}
    /\ tree[PathA] = "none" /\ tempDir.tree[PathA] = "dir"
    /\ "pinia" \in DOMAIN tempDir.pkg.dependencies
    /\ "pinia" \notin DOMAIN pkg.dependencies

(***************************************************************************)
(* The order of the calls                                                  *)
(***************************************************************************)

\* Two calls made for the same item
SameItem(c, d) == c.layer = d.layer /\ c.item = d.item

\* C18 as stated: every removeFiles call of a pass is made before its first
\* manifest patch, code-pattern prune or dependency update.
C18_AllRemovalsFirst ==
    \A i, j \in 1..Len(log) :
        (i < j /\ log[j].op = "removeFiles") => log[i].op = "removeFiles"

\* C18, amended: the removeFiles calls of an item are made before its
\* manifest patch and its code-pattern prunes, the calls of one item are made
\* together, and every removeFiles call is made before the dependency update.
C18_RemovalsFirstPerItem ==
    \A i, j \in 1..Len(log) :
        i < j =>
            /\ log[i].op # "updateDependencies"
            /\ (SameItem(log[i], log[j]) /\ log[j].op = "removeFiles")
                  => log[i].op = "removeFiles"
            /\ SameItem(log[i], log[j])
                  => \A k \in i..j : SameItem(log[i], log[k])

\* A pass has ended in which an item's files were removed after another
\* item's manifest patch and code-pattern prune, and before the dependency
\* update
C18_Witness ==
    /\ pc = "done"
    /\ \E i, j, k \in 1..Len(log) :
          /\ i < j /\ j < k
          /\ log[i].op = "updateManifest" /\ log[i].outcome = "updated"
          /\ log[i + 1].op = "processCodePattern"
          /\ log[j].op = "removeFiles" /\ log[j].outcome = "removed"
          /\ ~SameItem(log[i], log[j])
          /\ log[k].op = "updateDependencies"
    /\ \E i \in 1..Len(log) :
          /\ log[i].op = "removeFiles"
          /\ log[i + 1].op = "updateManifest"
          /\ SameItem(log[i], log[i + 1])

\* The calls the pass owes to an unselected item have been made
ItemProcessed(layer, it) ==
    /\ \A pat \in EntriesOf(it) :
          \E k \in 1..Len(log) :
              /\ log[k].op = "removeFiles" /\ log[k].pattern = pat
              /\ log[k].layer = layer.key /\ log[k].item = it.id
    /\ (it.hasManifestKeys /\ TemplateType(templateConfig) = "chrome-extension") =>
          \E k \in 1..Len(log) :
              /\ log[k].op = "updateManifest" /\ log[k].keys = it.manifestKeys
              /\ log[k].layer = layer.key /\ log[k].item = it.id
    /\ \A cp \in Range(it.codePatterns) :
          \E k \in 1..Len(log) :
              /\ log[k].op = "processCodePattern" /\ log[k].cp = cp
              /\ log[k].layer = layer.key /\ log[k].item = it.id

\* updateDependencies is the last call made, and the only one of its kind,
\* after the calls of every unselected item of every layer
DependenciesLast ==
    /\ \A k \in 1..Len(log) :
          log[k].op = "updateDependencies" =>
              /\ k = Len(log)
              /\ pc \in {"done", "finished"}
              /\ \A layer \in Layers(templateConfig) :
                    \A it \in ItemsUnselected(layer, userSelections) :
                        ItemProcessed(layer, it)
    /\ pc = "done" => (log # <<>> /\ log[Len(log)].op = "updateDependencies")

\* A step of the pass is one call: it adds one entry to the log and changes
\* only what that call changes
OneCallAtATime ==
    \/ log' = log
    \/ log' = <<>>
    \/ /\ log' = Append(log, last')
       /\ last'.op # "removeFiles" => tree' = tree
       /\ last'.op \notin {"removeFiles", "updateDependencies"} => pkg' = pkg
       /\ last'.op \notin {"removeFiles", "updateManifest"} =>
             (manifestTs' = manifestTs /\ manifestJson' = manifestJson)
       /\ last'.op \notin {"removeFiles", "processCodePattern"} => code' = code
       /\ last'.op = "removeFiles" =>
             /\ tree'[PkgPath] # "none" => pkg' = pkg
             /\ tree'[ManifestTsPath] # "none" => manifestTs' = manifestTs
             /\ tree'[ManifestJsonPath] # "none" => manifestJson' = manifestJson
             /\ \A f \in Range(CodeFiles) : tree'[f] # "none" => code'[f] = code[f]

\* C19: updateDependencies is called once in a pass, after the removals,
\* the manifest patch and the code pruning of every unselected item of every
\* layer, and no two calls of the pass are in progress together.
C19_DependenciesOnceAndLast ==
    []DependenciesLast /\ [][OneCallAtATime]_vars

\* A pass over two layers has ended: items of both were processed and
\* package.json was rewritten by the one call that ended it
C19_Witness ==
    /\ pc = "done"
    /\ Len(log) >= 6
    /\ \E i, j \in 1..Len(log) : log[i].layer = "pages" /\ log[j].layer = "features"
    /\ last.op = "updateDependencies" /\ last.outcome = "updated"
    /\ Cardinality({ k \in 1..Len(log) : log[k].op = "updateDependencies" }) = 1
    /\ pkg # pkgBefore

(***************************************************************************)
(* The removal policy                                                      *)
(***************************************************************************)

\* The tree t without p and everything below it
TreeWithout(t, p) == [q \in DOMAIN t |-> IF IsPrefix(p, q) THEN "none" ELSE t[q]]

TrailingStripped(pattern) ==
    IF EndsWith(pattern, SuffixAll)
    THEN SubSeq(pattern, 1, Len(pattern) - Len(SuffixAll))
    ELSE IF EndsWith(pattern, SuffixDir)
    THEN SubSeq(pattern, 1, Len(pattern) - Len(SuffixDir))
    ELSE pattern

\* The path below the project directory that the pattern names then
Target(pattern) == Segments(TrailingStripped(pattern))

\* C21: the target of removeFiles is the project directory joined with the
\* pattern minus the directory suffix it ends in, or with the pattern as it
\* is when it ends in none, a '/**/' in its middle included: the call reports
\* 'not found' exactly when nothing exists there, and changes nothing outside.
C21_OnlyTrailingSuffixStripped ==
    last.op = "removeFiles" =>
        /\ \A q \in Paths : tree[q] # treeBefore[q] => IsPrefix(Target(last.pattern), q)
        /\ last.outcome = "not-found" <=>
              (Target(last.pattern) \notin Paths \/ treeBefore[Target(last.pattern)] = "none")

(***************************************************************************)
(* The layers of a configuration                                           *)
(***************************************************************************)

LayerKeys(cfg) == { l.key : l \in Layers(cfg) }

\* C22: the prompt, the removal loop and the scan for possible dependencies
\* take the same keys for layers: the top-level keys that hold a plain object
\* and are none of templateName, templateType, templateDescription,
\* templateAuthor and version.
C22_SameLayerKeys ==
    /\ (pc \notin {"cloned", "loaded", "exited"} /\ ~predefinedChoices) =>
          Range(prompted) = LayerKeys(templateConfig)
    /\ pc \in {"running", "done", "finished"} =>
          LoopLayers(templateConfig) = LayerKeys(templateConfig)
    /\ last.op = "updateDependencies" =>
          ScanLayers(templateConfig) = LayerKeys(templateConfig)

(***************************************************************************)
(* The temporary directory                                                 *)
(***************************************************************************)

\* C27: a run of init that has cloned the template ends with the temporary
\* directory removed, whether it returns or exits with an error.
C27_TempDirRemoved ==
    pc \in {"finished", "exited"} => tempDir = NoDir

(***************************************************************************)
(* The two manifests                                                       *)
(***************************************************************************)

\* The step is one updateManifest call
ManifestStep == log' = Append(log, last') /\ last'.op = "updateManifest"

\* manifest.config.ts and manifest.json both exist
BothExist == tree[ManifestTsPath] # "none" /\ tree[ManifestJsonPath] # "none"

\* C23 as stated: when both manifests exist, an updateManifest call leaves
\* manifest.json as it is and does not write it, also when patching
\* manifest.config.ts fails.
C23_JsonUntouched ==
    [][(ManifestStep /\ BothExist) =>
          (manifestJson' = manifestJson /\ ManifestJsonPath \notin last'.written)]_vars

\* C23, amended: when both manifests exist and manifest.config.ts can be
\* read, the call patches only manifest.config.ts and leaves manifest.json as
\* it is, unwritten; when reading manifest.config.ts throws, the call reports
\* the error, leaves manifest.config.ts as it is and goes on to manifest.json,
\* which it patches and writes when it parses.
C23_JsonUntouchedUnlessTsFails ==
    [][(ManifestStep /\ BothExist) =>
          IF tree[ManifestTsPath] = "file"
          THEN /\ manifestJson' = manifestJson
               /\ last'.written \subseteq {ManifestTsPath}
               /\ last'.outcome = "updated"
          ELSE /\ manifestTs' = manifestTs
               /\ last'.outcome = "error"
               /\ IF manifestJson.json
                  THEN /\ last'.written = {ManifestJsonPath}
                       /\ manifestJson'.map =
                             JsonKeysRemoved(manifestJson.map, last'.keys)
                  ELSE /\ last'.written = {}
                       /\ manifestJson' = manifestJson]_vars

\* An updateManifest call has patched and written manifest.config.ts while a
\* manifest.json that holds the key is there, and has left the key in it
C23_Witness ==
    /\ last.op = "updateManifest"
    /\ treeBefore[ManifestTsPath] = "file" /\ treeBefore[ManifestJsonPath] = "file"
    /\ last.written = {ManifestTsPath}
    /\ manifestTs # manifestBefore
    /\ manifestJson.json
    /\ \E x \in DOMAIN manifestJson.map :
          x \in Range(last.keys) /\ Truthy(manifestJson.map[x])

\* C24: after an updateManifest call that has patched manifest.json, no key of
\* keys is left in it, whatever its value was, and every other key is there
\* with the value it had.
C24_JsonKeysDeleted ==
    [][(ManifestStep /\ ManifestJsonPath \in last'.written) =>
          /\ \A x \in DOMAIN manifestJson'.map : x \notin Range(last'.keys)
          /\ \A x \in DOMAIN manifestJson.map :
                x \notin Range(last'.keys) =>
                    /\ x \in DOMAIN manifestJson'.map
                    /\ manifestJson'.map[x] = manifestJson.map[x]]_vars

\* The template is a chrome-extension and an unselected item of a layer of
\* the removal loop carries manifestKeys
PatcherDue ==
    /\ TemplateType(templateConfig) = "chrome-extension"
    /\ \E k \in 1..Len(templateConfig) :
          /\ templateConfig[k].key \in LoopLayers(templateConfig)
          /\ \E item \in Range(UnselectedItems(templateConfig[k], userSelections)) :
                item.hasManifestKeys

\* The manifest file at path p is what the clone put there
ManifestAsCloned(p) ==
    /\ tree[p] = tempDir.tree[p]
    /\ p = ManifestTsPath => manifestTs = tempDir.manifestTs
    /\ p = ManifestJsonPath => manifestJson = tempDir.manifestJson

\* The calls of updateManifest in the log are all made for an unselected item
\* that carries manifestKeys, in a chrome-extension template
PatcherGated ==
    \A k \in 1..Len(log) :
        log[k].op = "updateManifest" =>
            /\ TemplateType(templateConfig) = "chrome-extension"
            /\ \E j \in 1..Len(templateConfig) :
                  /\ templateConfig[j].key = log[k].layer
                  /\ \E item \in Range(UnselectedItems(templateConfig[j], userSelections)) :
                        item.id = log[k].item /\ item.hasManifestKeys

\* C25 as stated: updateManifest is called only for unselected items with
\* manifestKeys in a chrome-extension template; with another templateType, or
\* with no such item, applyTemplateConfig leaves both manifests as the clone
\* put them.
C25_ManifestsUnchanged ==
    pc = "done" =>
        /\ PatcherGated
        /\ ~PatcherDue => ManifestAsCloned(ManifestTsPath) /\ ManifestAsCloned(ManifestJsonPath)

\* C25, amended: updateManifest is called only for unselected items with
\* manifestKeys in a chrome-extension template; with another templateType, or
\* with no such item, it is not called at all, and a manifest is as the clone
\* put it unless a removeFiles call of the pass had a pattern whose target is
\* the manifest or a directory above it.
C25_ManifestsNotPatched ==
    pc = "done" =>
        /\ PatcherGated
        /\ ~PatcherDue =>
              /\ \A k \in 1..Len(log) : log[k].op # "updateManifest"
              /\ \A p \in {ManifestTsPath, ManifestJsonPath} :
                    \/ ManifestAsCloned(p)
                    \/ \E k \in 1..Len(log) :
                          /\ log[k].op = "removeFiles"
                          /\ IsPrefix(Target(log[k].pattern), p)

\* A pass over a template that is not a chrome-extension has ended with the
\* item that carries manifestKeys unselected, and both manifests still hold
\* its key
C25_Witness ==
    /\ pc = "done"
    /\ TemplateType(templateConfig) # "chrome-extension"
    /\ \E k \in 1..Len(templateConfig) :
          \E item \in Range(UnselectedItems(templateConfig[k], userSelections)) :
              item.hasManifestKeys /\ KeyK \in Range(item.manifestKeys)
    /\ tree[ManifestTsPath] = "file" /\ manifestTs = PlainManifest
    /\ tree[ManifestJsonPath] = "file" /\ manifestJson.json
    /\ \E x \in DOMAIN manifestJson.map : x \in Range(<<KeyK>>) /\ Truthy(manifestJson.map[x])

(***************************************************************************)
(* package.json absent or without its maps                                 *)
(***************************************************************************)

C28_ErrorLeavesPackageJson ==
    last.op = "updateDependencies" =>
        /\ last.outcome = "error" => pkg = pkgBefore /\ last.written = {}
        /\ last.written # {} => last.outcome = "updated" /\ last.written = {PkgPath}

\* updateDependencies has met a null entry in a dependencies array with a
\* package.json that parses and lacks both keys, and has left it so
C28_Witness ==
    /\ last.op = "updateDependencies"
    /\ last.outcome = "error"
    /\ HasNull(PossibleDependencies(templateConfig))
    /\ pkgBefore.json /\ ~pkgBefore.hasDeps
    /\ pkg = pkgBefore

(***************************************************************************)
(* Pruning a second time                                                   *)
(***************************************************************************)

\* Where, in what replace leaves of s from position from on, a match of sub
\* was deleted: the number of characters kept before the place, kept being
\* the number kept before from
RECURSIVE CutPoints(_, _, _, _)
RECURSIVE CutPointsAt(_, _, _, _, _)
CutPoints(s, from, sub, kept) == CutPointsAt(s, from, sub, kept, PatternStarts(s, from, sub))
CutPointsAt(s, from, sub, kept, at) ==
    IF at = {} THEN {}
    ELSE {kept + (Least(at) - from)}
         \cup CutPoints(s, Least(at) + Len(sub), sub, kept + (Least(at) - from))

\* C29 as stated: a file that processCodePattern has rewritten for a pattern
\* with action 'keep' holds no match of the pattern, and deleting the pattern
\* from it again changes nothing.
C29_PruneIdempotent ==
    KeepApplied =>
        \A f \in last.written :
            /\ ~PatternMatches(code[f], last.cp.pattern)
            /\ PatternRemoved(code[f], 1, last.cp.pattern) = code[f]

\* C29, amended: in a file that processCodePattern has rewritten for a
\* non-empty literal pattern with action 'keep', every match that is left
\* lies across a place where a match was deleted, and deleting the pattern
\* again changes the file exactly if such a match is left.
C29_LeftoverAcrossCuts ==
    (KeepApplied /\ last.cp.pattern # <<>>) =>
        \A f \in last.written :
            /\ \A i \in PatternStarts(code[f], 1, last.cp.pattern) :
                  \E c \in CutPoints(codeBefore[f], 1, last.cp.pattern, 0) :
                      i - 1 < c /\ c < i - 1 + Len(last.cp.pattern)
            /\ PatternRemoved(code[f], 1, last.cp.pattern) = code[f]
                  <=> ~PatternMatches(code[f], last.cp.pattern)

\* The pattern 'ky' was deleted from 'kkyy', which left 'ky'
C29_Witness ==
    /\ KeepApplied
    /\ last.cp.pattern = <<"k", "y">>
    /\ MainJs \in last.written
    /\ codeBefore[MainJs] = <<"k", "k", "y", "y">>
    /\ code[MainJs] = <<"k", "y">>

(***************************************************************************)
(* Properties whose name or value holds the key                            *)
(***************************************************************************)

\* C30: removing key k from a manifest.config.ts that has no property named
\* k leaves it as it is: neither a property whose name ends with k nor a
\* 'k:' inside the value of another property is touched.
C30_OnlyExactKey ==
    (/\ last.op = "updateManifest"
     /\ last.keys = <<KeyK>>
     /\ manifestBefore \in NearMissTexts) => manifestTs = manifestBefore

====
